---- MODULE Spec2Model ----
(***************************************************************************)
(* Model of the interference calculator: the formula parser and Molecule   *)
(* class (src/interference_calculator/molecule.py) and the interference    *)
(* search (src/main.py).                                                   *)
(*                                                                         *)
(* Text that is parsed is a sequence of one-character strings; text that   *)
(* is produced (isotope names, rendered formulas) is a string.             *)
(* Masses are integers in units of 10^-6 u.  An abundance is kept as the   *)
(* exact monomial  coef * PROD p_i^e_i  over the table's abundances p_i    *)
(* (the record [coef, exps]), so that two abundances are equal exactly     *)
(* when they are equal for every table.                                    *)
(***************************************************************************)
EXTENDS Integers, Sequences, FiniteSets, TLC

VARIABLES
    input,              \* Molecule.input: the formula text given to Molecule()
    pc,                 \* position in Molecule.__init__: "new", "parsed", "abundance",
                        \* "done" or "failed"; "idle" when no Molecule is constructed
    error,              \* exception that ended __init__, "" if none
    elements,           \* Molecule.elements
    atomic_masses,      \* Molecule.atomic_masses
    counts,             \* Molecule.counts
    isotopes,           \* Molecule.isotopes
    mass,               \* Molecule.mass
    abundance,          \* Molecule.abundance
    charge,             \* Molecule.charge
    chargesign,         \* Molecule.chargesign
    molecular_formula,  \* Molecule.molecular_formula
    call,               \* arguments of a call of interference(), standard_ratio()
                        \* or Molecule.formula(), or NoCall
    result,             \* what the call returned or raised, NoResult before
    loop_size,          \* interference(): the last size the loop of line 102 has done
    widget              \* the MainWidget of ui.py: its attributes, the table shown,
                        \* and the position in calculate_interference

mvars == <<input, pc, error, elements, atomic_masses, counts, isotopes, mass,
           abundance, charge, chargesign, molecular_formula>>
ivars == <<call, result>>
uvars == <<loop_size, widget>>
vars == <<mvars, ivars, uvars>>

-----------------------------------------------------------------------------
(* Characters *)

DigitSeq == <<"0", "1", "2", "3", "4", "5", "6", "7", "8", "9">>
UpperSeq == <<"A", "B", "C", "D", "E", "F", "G", "H", "I", "J", "K", "L", "M",
              "N", "O", "P", "Q", "R", "S", "T", "U", "V", "W", "X", "Y", "Z">>
LowerSeq == <<"a", "b", "c", "d", "e", "f", "g", "h", "i", "j", "k", "l", "m",
              "n", "o", "p", "q", "r", "s", "t", "u", "v", "w", "x", "y", "z">>

Range(f) == {f[i] : i \in DOMAIN f}

Digits == Range(DigitSeq)
Uppers == Range(UpperSeq)
Lowers == Range(LowerSeq)
AlphaNums == Digits \cup Uppers \cup Lowers

\* pyparsing's default whitespace characters
White == {" ", "\t", "\n", "\r"}

IndexOf(seq, c) == CHOOSE i \in DOMAIN seq : seq[i] = c

\* ord() of an alphanumeric character
Ord(c) ==
    IF c \in Digits THEN 47 + IndexOf(DigitSeq, c)
    ELSE IF c \in Uppers THEN 64 + IndexOf(UpperSeq, c)
    ELSE 96 + IndexOf(LowerSeq, c)

\* Python's < on str
RECURSIVE StrLess(_, _)
StrLess(a, b) ==
    IF b = <<>> THEN FALSE
    ELSE IF a = <<>> THEN TRUE
    ELSE IF Ord(Head(a)) # Ord(Head(b)) THEN Ord(Head(a)) < Ord(Head(b))
    ELSE StrLess(Tail(a), Tail(b))

\* the text as one string
RECURSIVE Str(_)
Str(cs) == IF cs = <<>> THEN "" ELSE Head(cs) \o Str(Tail(cs))

\* int() of a run of digits
RECURSIVE ToInt(_)
ToInt(cs) ==
    IF cs = <<>> THEN 0
    ELSE 10 * ToInt(SubSeq(cs, 1, Len(cs) - 1)) + (IndexOf(DigitSeq, cs[Len(cs)]) - 1)

\* the decimal digits of a number
RECURSIVE NatChars(_)
NatChars(n) ==
    IF n < 10 THEN <<DigitSeq[n + 1]>>
    ELSE NatChars(n \div 10) \o <<DigitSeq[(n % 10) + 1]>>

\* str.strip()
RECURSIVE LStrip(_)
LStrip(s) == IF s # <<>> /\ Head(s) \in White THEN LStrip(Tail(s)) ELSE s
RECURSIVE RStrip(_)
RStrip(s) ==
    IF s # <<>> /\ s[Len(s)] \in White THEN RStrip(SubSeq(s, 1, Len(s) - 1)) ELSE s
Strip(s) == RStrip(LStrip(s))

-----------------------------------------------------------------------------
(* The periodic table: rows ordered by atomic number, then atomic mass.    *)
(* Masses are in 10^-6 u, rounded to a multiple of 6 so that dividing a    *)
(* mass by a charge of 1, 2 or 3 is exact; abundances are in 10^-6.        *)

mass_electron == 548

periodic_table == <<
    [Z |-> 1, elem |-> <<"H">>, am |-> 1,  mass |-> 1007826,  abundance |-> 999885, major |-> "1H"],
    [Z |-> 1, elem |-> <<"H">>, am |-> 2,  mass |-> 2014104,  abundance |-> 115,    major |-> "1H"],
    [Z |-> 6, elem |-> <<"C">>, am |-> 12, mass |-> 12000000, abundance |-> 989300, major |-> "12C"],
    [Z |-> 6, elem |-> <<"C">>, am |-> 13, mass |-> 13003356, abundance |-> 10700,  major |-> "12C"],
    [Z |-> 8, elem |-> <<"O">>, am |-> 16, mass |-> 15994914, abundance |-> 997570, major |-> "16O"],
    [Z |-> 8, elem |-> <<"O">>, am |-> 17, mass |-> 16999134, abundance |-> 380,    major |-> "16O"],
    [Z |-> 8, elem |-> <<"O">>, am |-> 18, mass |-> 17999160, abundance |-> 2050,   major |-> "16O"] >>

Rows == DOMAIN periodic_table

\* the columns 'element' and 'isotope'
ElementOf(r) == Str(periodic_table[r].elem)
IsotopeChars(r) == NatChars(periodic_table[r].am) \o periodic_table[r].elem
IsotopeOf(r) == Str(IsotopeChars(r))

\* periodic_table[periodic_table['element'] == el]
ElementRows(el) == {r \in Rows : ElementOf(r) = el}
\* periodic_table[periodic_table['isotope'] == i]
IsotopeRows(i) == {r \in Rows : IsotopeOf(r) = i}

Min(S) == CHOOSE x \in S : \A y \in S : x <= y

-----------------------------------------------------------------------------
(* pyparsing elements.  A match is [ok, txt, pos]: pos is the place after  *)
(* the match, or the place the element was tried at when it did not match. *)

NoMatch(i) == [ok |-> FALSE, txt |-> <<>>, pos |-> i]

\* ParserElement.preParse: skip leading whitespace
RECURSIVE Skip(_, _)
Skip(s, i) == IF i <= Len(s) /\ s[i] \in White THEN Skip(s, i + 1) ELSE i

\* end of the run of characters of S that starts at i
RECURSIVE RunEnd(_, _, _)
RunEnd(s, i, S) == IF i <= Len(s) /\ s[i] \in S THEN RunEnd(s, i + 1, S) ELSE i

\* pp.Word(pp.nums) at i, adjacent (no whitespace skipped)
WordNums(s, i) ==
    LET k == RunEnd(s, i, Digits)
    IN  IF k > i THEN [ok |-> TRUE, txt |-> SubSeq(s, i, k - 1), pos |-> k]
        ELSE NoMatch(i)

\* a literal character, after whitespace
Lit(s, i, c) ==
    LET j == Skip(s, i)
    IN  IF j <= Len(s) /\ s[j] = c THEN [ok |-> TRUE, txt |-> <<c>>, pos |-> j + 1]
        ELSE NoMatch(i)

\* _opt_int = pp.Optional(pp.Word(pp.nums))
opt_int(s, i) ==
    LET m == WordNums(s, Skip(s, i))
    IN  IF m.ok THEN m ELSE [ok |-> TRUE, txt |-> <<>>, pos |-> i]

\* _element = pp.Combine(Word(upper, exact=1) + Optional(Word(lower, max=2)))
element(s, i) ==
    LET j == Skip(s, i)
        k == RunEnd(s, j + 1, Lowers)
    IN  IF j <= Len(s) /\ s[j] \in Uppers
        THEN IF k - (j + 1) \in {1, 2}
             THEN [ok |-> TRUE, txt |-> SubSeq(s, j, k - 1), pos |-> k]
             ELSE [ok |-> TRUE, txt |-> <<s[j]>>, pos |-> j + 1]
        ELSE NoMatch(i)

\* _neutral = pp.oneOf('o 0')
neutral(s, i) ==
    LET j == Skip(s, i)
    IN  IF j <= Len(s) /\ s[j] \in {"o", "0"}
        THEN [ok |-> TRUE, txt |-> <<s[j]>>, pos |-> j + 1]
        ELSE NoMatch(i)

\* _charged = pp.oneOf('+ -')
charged(s, i) ==
    LET j == Skip(s, i)
    IN  IF j <= Len(s) /\ s[j] \in {"+", "-"}
        THEN [ok |-> TRUE, txt |-> <<s[j]>>, pos |-> j + 1]
        ELSE NoMatch(i)

\* _neutral('charge_sign') | _opt_int('charge_count') + _charged('charge_sign')
NoCharge(i) == [ok |-> FALSE, charge_sign |-> <<>>, charge_count |-> <<>>, pos |-> i]

\* the second alternative, c the match of _opt_int and g the match of _charged
count_charged(i, c, g) ==
    IF g.ok
    THEN [ok |-> TRUE, charge_sign |-> g.txt, charge_count |-> c.txt, pos |-> g.pos]
    ELSE NoCharge(i)

\* the second alternative after its _opt_int
count_then_charged(s, i, c) == count_charged(i, c, charged(s, c.pos))

\* the MatchFirst, n the match of _neutral
neutral_or_charged(s, i, n) ==
    IF n.ok
    THEN [ok |-> TRUE, charge_sign |-> n.txt, charge_count |-> <<>>, pos |-> n.pos]
    ELSE count_then_charged(s, i, opt_int(s, i))

charge_alternatives(s, i) == neutral_or_charged(s, i, neutral(s, i))

\* pp.Optional(...) of a charge: no match leaves the place and names no result
OptionalCharge(i, c) == IF c.ok THEN c ELSE [NoCharge(i) EXCEPT !.ok = TRUE]

\* the tokens of one Group: atomic mass a, element e, count c, and the place
\* after the group
NoUnit(i) == [ok |-> FALSE, atomic_mass |-> <<>>, element |-> <<>>, count |-> <<>>, pos |-> i]
Unit(a, e, c, pos) ==
    [ok |-> TRUE, atomic_mass |-> a.txt, element |-> e.txt, count |-> c.txt, pos |-> pos]

-----------------------------------------------------------------------------
(* Isotope notation *)

\* _in_delimiter.transformString: every run of characters that are not
\* alphanumeric, '+' or '-' becomes one ','
RECURSIVE in_delimiter(_)
in_delimiter(s) ==
    IF s = <<>> THEN <<>>
    ELSE IF Head(s) \in AlphaNums \cup {"+", "-"} THEN <<Head(s)>> \o in_delimiter(Tail(s))
    ELSE <<",">> \o in_delimiter(SubSeq(s,
             RunEnd(s, 1, {c \in Range(s) : c \notin AlphaNums \cup {"+", "-"}}), Len(s)))

\* _in_comma = pp.Optional(pp.Suppress(',')): the place after it
in_comma(s, i) == Lit(s, i, ",").pos

\* one Group of _in_unit, after its atomic mass, element and count
in_unit_count(s, a, e, c) == Unit(a, e, c, in_comma(s, c.pos))
in_unit_element(s, i, a, e) ==
    IF e.ok THEN in_unit_count(s, a, e, opt_int(s, e.pos)) ELSE NoUnit(i)
in_unit_atomic_mass(s, i, a) == in_unit_element(s, i, a, element(s, a.pos))
in_group(s, i) == in_unit_atomic_mass(s, i, opt_int(s, i))

\* _in_charge
in_charge(s, i) == OptionalCharge(i, charge_alternatives(s, i))

-----------------------------------------------------------------------------
(* Molecular notation *)

\* _mn_atomic_mass = Optional(Combine(Suppress('[') + Word(nums) + Suppress(']')))
mn_atomic_mass(s, i) ==
    LET j == Skip(s, i)
        w == WordNums(s, j + 1)
    IN  IF j <= Len(s) /\ s[j] = "[" /\ w.ok /\ w.pos <= Len(s) /\ s[w.pos] = "]"
        THEN [ok |-> TRUE, txt |-> w.txt, pos |-> w.pos + 1]
        ELSE [ok |-> TRUE, txt |-> <<>>, pos |-> i]

\* one Group of _mn_unit, after its atomic mass, element and count
mn_unit_count(a, e, c) == Unit(a, e, c, c.pos)
mn_unit_element(s, i, a, e) ==
    IF e.ok THEN mn_unit_count(a, e, opt_int(s, e.pos)) ELSE NoUnit(i)
mn_unit_atomic_mass(s, i, a) == mn_unit_element(s, i, a, element(s, a.pos))
mn_group(s, i) == mn_unit_atomic_mass(s, i, mn_atomic_mass(s, i))

\* _mn_charge, after the '[', the alternatives c and the ']'
mn_charge_close(c, e) == IF e.ok THEN [c EXCEPT !.pos = e.pos] ELSE NoCharge(c.pos)
mn_charge_sign(s, c) ==
    IF c.ok THEN mn_charge_close(c, Lit(s, c.pos, "]")) ELSE NoCharge(c.pos)
mn_charge_open(s, b) ==
    IF b.ok THEN mn_charge_sign(s, charge_alternatives(s, b.pos)) ELSE NoCharge(b.pos)
mn_charge(s, i) == OptionalCharge(i, mn_charge_open(s, Lit(s, i, "[")))

-----------------------------------------------------------------------------
(* pp.OneOrMore(pp.Group(...)) and parseString(..., parseAll=True) *)

Group(s, i, mn) == IF mn THEN mn_group(s, i) ELSE in_group(s, i)

RECURSIVE OneOrMore(_, _, _)

\* the group u before the groups that follow it
GroupThen(u, rest) ==
    [units |-> <<[atomic_mass |-> u.atomic_mass, element |-> u.element,
                  count |-> u.count]>> \o rest.units,
     pos |-> rest.pos]

\* the groups from i on, u the match of the first
Repeat(s, i, mn, u) ==
    IF u.ok THEN GroupThen(u, OneOrMore(s, u.pos, mn)) ELSE [units |-> <<>>, pos |-> i]

OneOrMore(s, i, mn) == Repeat(s, i, mn, Group(s, i, mn))

\* the ParseResults of units us and charge ch; ok = FALSE is pp.ParseException
ParseResults(s, us, ch) ==
    [ok |-> us.units # <<>> /\ Skip(s, ch.pos) = Len(s) + 1,
     units |-> us.units,
     charge_sign |-> ch.charge_sign,
     charge_count |-> ch.charge_count]

\* the charge after the units us
ParseCharge(s, mn, us) ==
    ParseResults(s, us, IF mn THEN mn_charge(s, us.pos) ELSE in_charge(s, us.pos))

parseString(s, mn) == ParseCharge(s, mn, OneOrMore(s, 1, mn))

\* lines 204-209 of Molecule.parse: molecular notation first, then isotope notation
mn_molecule(s) == parseString(s, TRUE)
in_molecule(s) == parseString(in_delimiter(s), FALSE)
except_ParseException(s, molec) == IF molec.ok THEN molec ELSE in_molecule(s)
ParseInput(s) == except_ParseException(s, mn_molecule(s))

-----------------------------------------------------------------------------
(* Molecule.parse *)

RECURSIVE SumSeq(_)
SumSeq(q) == IF q = <<>> THEN 0 ELSE Head(q) + SumSeq(Tail(q))

\* the least str of a set
MinStr(S) == CHOOSE x \in S : \A y \in S \ {x} : StrLess(x, y)

\* sorted() of a set of str
RECURSIVE Sorted(_)
SortedAfter(S, m) == <<m>> \o Sorted(S \ {m})
Sorted(S) == IF S = {} THEN <<>> ELSE SortedAfter(S, MinStr(S))

\* label = unit.atomic_mass + unit.element
Label(u) == u.atomic_mass \o u.element

\* int(unit.get('count', 1))
CountOfUnit(u) == IF u.count = <<>> THEN 1 ELSE ToInt(u.count)

\* the first unit of a label
FirstUnit(units, label) == units[Min({i \in DOMAIN units : Label(units[i]) = label})]

\* lines 213-223: data[label], the first unit of the label with the counts
\* of all units of the label added up
MergeUnits(units, label) ==
    [atomic_mass |-> FirstUnit(units, label).atomic_mass,
     element |-> FirstUnit(units, label).element,
     count |-> SumSeq([i \in DOMAIN units |->
                  IF Label(units[i]) = label THEN CountOfUnit(units[i]) ELSE 0])]

\* for k in sorted(data.keys())
SortedKeys(units) == Sorted({Label(units[i]) : i \in DOMAIN units})

\* the atomic mass of the first table row's major isotope: int(am.strip(el))
MajorIsotopeAm(el) ==
    periodic_table[CHOOSE r \in Rows :
        IsotopeOf(r) = periodic_table[Min(ElementRows(el))].major].am

\* lines 227-238: element and atomic mass of one entry; ok = FALSE is the
\* IndexError of .iloc[0] on an empty selection
Canonical(d) ==
    IF d.element = <<"D">> THEN [ok |-> TRUE, el |-> "H", am |-> 2]
    ELSE IF d.atomic_mass # <<>>
    THEN [ok |-> TRUE, el |-> Str(d.element), am |-> ToInt(d.atomic_mass)]
    ELSE IF ElementRows(Str(d.element)) = {}
    THEN [ok |-> FALSE, el |-> Str(d.element), am |-> 0]
    ELSE [ok |-> TRUE, el |-> Str(d.element), am |-> MajorIsotopeAm(Str(d.element))]

\* str(am) + el
IsotopeName(am, el) == Str(NatChars(am)) \o el

\* lines 255-260 without the test for a neutral sign
ChargeOf_CountOnly(charge_sign, charge_count) ==
    IF charge_count = <<>> THEN 1 ELSE ToInt(charge_count)

\* lines 255-260
ChargeOf(charge_sign, charge_count) ==
    IF Str(charge_sign) \in {"o", "0", ""} THEN 0
    ELSE IF charge_count = <<>> THEN 1
    ELSE ToInt(charge_count)

\* lines 262-266 with the corrections of the two signs exchanged
AdjustMass_SignsExchanged(m, sign, ch) ==
    IF sign = "+" THEN m + mass_electron * ch
    ELSE IF sign = "-" THEN m - mass_electron * ch
    ELSE m

\* lines 262-266
AdjustMass(m, sign, ch) ==
    IF sign = "+" THEN m - mass_electron * ch
    ELSE IF sign = "-" THEN m + mass_electron * ch
    ELSE m

\* the fields Molecule.__init__ sets before it calls parse
NewMolecule ==
    [error |-> "", elements |-> <<>>, atomic_masses |-> <<>>, counts |-> <<>>,
     isotopes |-> <<>>, mass |-> 0, charge |-> 0, chargesign |-> ""]

\* Molecule.parse left by an exception
Raised(e) == [NewMolecule EXCEPT !.error = e]

\* lines 245-253: the masses of the isotopes times their counts, added up
TotalMass(isos, cnts) ==
    SumSeq([k \in DOMAIN isos |->
        periodic_table[CHOOSE r \in Rows : IsotopeOf(r) = isos[k]].mass * cnts[k]])

\* lines 251-266, the mass before the adjustment, sign and ch the charge
parse_mass(canon, isos, cnts, total, sign, ch) ==
    [error |-> "",
     elements |-> [k \in DOMAIN canon |-> canon[k].el],
     atomic_masses |-> [k \in DOMAIN canon |-> canon[k].am],
     counts |-> cnts,
     isotopes |-> isos,
     mass |-> AdjustMass(total, sign, ch),
     charge |-> ch,
     chargesign |-> sign]

\* lines 244-249: the table row of every isotope
parse_isotopes(molec, canon, isos, cnts) ==
    IF \E k \in DOMAIN isos : IsotopeRows(isos[k]) = {} THEN Raised("IndexError")
    ELSE parse_mass(canon, isos, cnts, TotalMass(isos, cnts), Str(molec.charge_sign),
                    ChargeOf(molec.charge_sign, molec.charge_count))

\* lines 225-242 with the unknown element reported as text that does not parse
parse_sorted_AsParseException(molec, data, canon) ==
    IF \E k \in DOMAIN canon : ~canon[k].ok THEN Raised("ParseException")
    ELSE parse_isotopes(molec, canon,
                        [k \in DOMAIN canon |-> IsotopeName(canon[k].am, canon[k].el)],
                        [k \in DOMAIN data |-> data[k].count])

\* lines 225-242: the lists, in the order of the sorted labels
parse_sorted(molec, data, canon) ==
    IF \E k \in DOMAIN canon : ~canon[k].ok THEN Raised("IndexError")
    ELSE parse_isotopes(molec, canon,
                        [k \in DOMAIN canon |-> IsotopeName(canon[k].am, canon[k].el)],
                        [k \in DOMAIN data |-> data[k].count])

\* lines 211-223: the merged units of every label
parse_data(molec, data) ==
    parse_sorted(molec, data, [k \in DOMAIN data |-> Canonical(data[k])])
parse_keys(molec, keys) ==
    parse_data(molec, [k \in DOMAIN keys |-> MergeUnits(molec.units, keys[k])])
parse_results(molec) ==
    IF ~molec.ok THEN Raised("ParseException")
    ELSE parse_keys(molec, SortedKeys(molec.units))

\* Molecule.parse: the fields it sets, or the exception it raises
parse(text) ==
    IF text = <<>> THEN NewMolecule ELSE parse_results(ParseInput(Strip(text)))

-----------------------------------------------------------------------------
(* Molecule.relative_abundance *)

\* the rows of a set, in table order
RECURSIVE InOrder(_)
InOrder(S) == IF S = {} THEN <<>> ELSE <<Min(S)>> \o InOrder(S \ {Min(S)})

\* n! / (c_1! * ... * c_k!), the c_i adding up to n, as a product of binomial
\* coefficients
RECURSIVE GCD(_, _)
GCD(a, b) == IF b = 0 THEN a ELSE GCD(b, a % b)
RECURSIVE Binomial(_, _)
Binomial(n, k) ==
    IF k = 0 THEN 1
    ELSE (Binomial(n - 1, k - 1) \div (k \div GCD(n, k))) * (n \div GCD(n, k))
RECURSIVE Multinomial(_)
Multinomial(cs) ==
    IF cs = <<>> THEN 1
    ELSE Binomial(SumSeq(cs), Head(cs)) * Multinomial(Tail(cs))

RECURSIVE Product(_)
Product(q) == IF q = <<>> THEN 1 ELSE Head(q) * Product(Tail(q))

\* the abundance 1
One == [coef |-> 1, exps |-> [r \in Rows |-> 0]]

\* lines 301-302: the selected rows in table order; data['count'] = self.counts
\* gives them the counts by position
DataRows(isos) == InOrder({r \in Rows : IsotopeOf(r) \in Range(isos)})

\* data['major isotope'] of the j-th selected row
MajorOf(data, j) == periodic_table[data[j]].major

\* d = data[data['major isotope'] == el], el the parent of the j-th row
SameParent(data, j) == InOrder({i \in DOMAIN data : MajorOf(data, i) = MajorOf(data, j)})

\* parents: each parent once, named by its first selected row
Parents(data) == InOrder({SameParent(data, j)[1] : j \in DOMAIN data})

\* lines 306-316: abun of one parent, as the coefficient and the exponent of
\* each of its rows
abun(d, cnts) ==
    IF Len(d) = 1
    THEN [coef |-> 1, exps |-> [j \in Range(d) |-> SumSeq([i \in DOMAIN d |-> cnts[d[i]]])]]
    ELSE [coef |-> Multinomial([i \in DOMAIN d |-> cnts[d[i]]]),
          exps |-> [j \in Range(d) |-> cnts[j]]]

\* line 317: prod(abun_per_el)
prod(data, parents, abun_per_row) ==
    [coef |-> Product([i \in DOMAIN parents |-> abun_per_row[parents[i]].coef]),
     exps |-> [r \in Rows |->
                 IF \E j \in DOMAIN data : data[j] = r
                 THEN abun_per_row[CHOOSE j \in DOMAIN data : data[j] = r].exps[
                          CHOOSE j \in DOMAIN data : data[j] = r]
                 ELSE 0]]

\* lines 304-317
AbundanceOf(data, cnts) ==
    prod(data, Parents(data), [j \in DOMAIN data |-> abun(SameParent(data, j), cnts)])

\* data['count'] = self.counts: ValueError when the lengths differ
assign_count(data, cnts) ==
    IF Len(data) # Len(cnts) THEN [error |-> "ValueError", abundance |-> One]
    ELSE [error |-> "", abundance |-> AbundanceOf(data, cnts)]

\* Molecule.relative_abundance: the abundance, or the exception raised
relative_abundance(isos, cnts) == assign_count(DataRows(isos), cnts)

-----------------------------------------------------------------------------
(* Molecule.formula.  A template string with a curly brace pair is the     *)
(* pair of the texts before and after the braces.                          *)

html_template ==
    [begin |-> "", atomic_mass |-> <<"<sup>", "</sup>">>, element |-> <<"", "">>,
     count |-> <<"<sub>", "</sub>">>, charge |-> <<"<sup>", "</sup>">>,
     minorjoin |-> "", majorjoin |-> "", minus |-> "&ndash;", end |-> ""]

latex_template ==
    [begin |-> "$\\mathrm{", atomic_mass |-> <<"{}^{", "}">>, element |-> <<"{", "}">>,
     count |-> <<"_{", "}">>, charge |-> <<"{}^{", "}">>,
     minorjoin |-> "", majorjoin |-> "", minus |-> "-", end |-> "}$"]

mhchem_template ==
    [begin |-> "\\ce{", atomic_mass |-> <<"^{", "}">>, element |-> <<"", "">>,
     count |-> <<"", "">>, charge |-> <<"^", "">>,
     minorjoin |-> "", majorjoin |-> "", minus |-> "", end |-> "}"]

isotope_template ==
    [begin |-> "", atomic_mass |-> <<"", "">>, element |-> <<"", "">>,
     count |-> <<"", "">>, charge |-> <<"", "">>,
     minorjoin |-> "", majorjoin |-> " ", minus |-> "", end |-> ""]

molecular_template ==
    [begin |-> "", atomic_mass |-> <<"[", "]">>, element |-> <<"", "">>,
     count |-> <<"", "">>, charge |-> <<"[", "]">>,
     minorjoin |-> "", majorjoin |-> "", minus |-> "", end |-> ""]

\* an empty dict
NoTemplate == <<>>

\* template.format(x)
Format(t, x) == t[1] \o x \o t[2]

\* sep.join(q)
RECURSIVE Join(_, _)
Join(q, sep) ==
    IF q = <<>> THEN ""
    ELSE IF Len(q) = 1 THEN q[1]
    ELSE q[1] \o sep \o Join(Tail(q), sep)

\* lines 369-386: the template of a style; ok = FALSE is the ValueError
SelectTemplate(style, template) ==
    IF style = "html" THEN [ok |-> TRUE, templ |-> html_template]
    ELSE IF style = "latex" THEN [ok |-> TRUE, templ |-> latex_template]
    ELSE IF style = "mhchem" THEN [ok |-> TRUE, templ |-> mhchem_template]
    ELSE IF style = "molecular" THEN [ok |-> TRUE, templ |-> molecular_template]
    ELSE IF style \in {"plain", "isotope"} THEN [ok |-> TRUE, templ |-> isotope_template]
    ELSE IF style = "custom" /\ template # NoTemplate THEN [ok |-> TRUE, templ |-> template]
    ELSE [ok |-> FALSE, templ |-> NoTemplate]

\* lines 388-401 without the case of line 396: str(self.charge) also for 1
ChargeText_DigitForOne(m, templ, show_charge) ==
    IF ~show_charge \/ m.charge = 0 THEN ""
    ELSE ToString(m.charge)
             \o (IF m.chargesign = "-" /\ templ.minus # "" THEN templ.minus
                 ELSE m.chargesign)

\* lines 388-401: the charge text; templ['minus'] is read only for sign '-'
ChargeText(m, templ, show_charge) ==
    IF ~show_charge \/ m.charge = 0 THEN ""
    ELSE (IF m.charge = 1 THEN "" ELSE ToString(m.charge))
             \o (IF m.chargesign = "-" /\ templ.minus # "" THEN templ.minus
                 ELSE m.chargesign)

\* lines 356-367: 1H and 2H written as H and D
isH(m, HtoD, n) == HtoD /\ m.elements[n] = "H" /\ m.atomic_masses[n] \in {1, 2}
amass(m, HtoD, n) == IF isH(m, HtoD, n) THEN "" ELSE ToString(m.atomic_masses[n])
elem(m, HtoD, n) ==
    IF isH(m, HtoD, n) /\ m.atomic_masses[n] = 2 THEN "D" ELSE m.elements[n]
count(m, n) == IF m.counts[n] > 1 THEN ToString(m.counts[n]) ELSE ""

\* lines 405-412 without 'not all_isotopes' in line 406: the atomic mass of a
\* major isotope is never written
am_shown_MinorOnly(m, HtoD, all_isotopes, n) ==
    /\ amass(m, HtoD, n) # ""
    /\ ~(\E r \in Rows :
            periodic_table[r].major = amass(m, HtoD, n) \o elem(m, HtoD, n))

\* lines 405-412: whether the atomic mass of unit n is written
am_shown(m, HtoD, all_isotopes, n) ==
    /\ amass(m, HtoD, n) # ""
    /\ (all_isotopes \/ ~(\E r \in Rows :
            periodic_table[r].major = amass(m, HtoD, n) \o elem(m, HtoD, n)))

\* the keys of templ that the method reads
KeysRead(m, HtoD, show_charge, all_isotopes) ==
    {"begin", "majorjoin", "end"}
        \cup (IF show_charge /\ m.chargesign = "-" THEN {"minus"} ELSE {})
        \cup (IF m.elements # <<>> THEN {"element", "minorjoin"} ELSE {})
        \cup (IF \E n \in DOMAIN m.elements : am_shown(m, HtoD, all_isotopes, n)
              THEN {"atomic_mass"} ELSE {})
        \cup (IF \E n \in DOMAIN m.elements : count(m, n) # "" THEN {"count"} ELSE {})
        \cup (IF show_charge /\ m.charge # 0 THEN {"charge"} ELSE {})

\* lines 404-419: one unit
unit_str(m, templ, HtoD, all_isotopes, n) ==
    Join(<<IF am_shown(m, HtoD, all_isotopes, n)
           THEN Format(templ.atomic_mass, amass(m, HtoD, n)) ELSE "",
           Format(templ.element, elem(m, HtoD, n)),
           IF count(m, n) # "" THEN Format(templ.count, count(m, n)) ELSE "">>,
         templ.minorjoin)

\* lines 403-424: the units and the charge, joined
formula_join(templ, units, charge_text) ==
    templ.begin
        \o Join(units \o (IF charge_text # "" THEN <<Format(templ.charge, charge_text)>>
                          ELSE <<>>),
                templ.majorjoin)
        \o templ.end

\* lines 388-424 with the template chosen
formula_templ(m, templ, HtoD, show_charge, all_isotopes) ==
    IF ~(KeysRead(m, HtoD, show_charge, all_isotopes) \subseteq DOMAIN templ)
    THEN [error |-> "KeyError", text |-> ""]
    ELSE [error |-> "",
          text |-> formula_join(templ,
                       [n \in DOMAIN m.elements |-> unit_str(m, templ, HtoD, all_isotopes, n)],
                       ChargeText(m, templ, show_charge))]

formula_select(m, sel, HtoD, show_charge, all_isotopes) ==
    IF ~sel.ok THEN [error |-> "ValueError", text |-> ""]
    ELSE formula_templ(m, sel.templ, HtoD, show_charge, all_isotopes)

\* Molecule.formula of the molecule m (its elements, atomic_masses, counts,
\* charge and chargesign): the text, or the exception raised
formula(m, style, HtoD, show_charge, all_isotopes, template) ==
    formula_select(m, SelectTemplate(style, template), HtoD, show_charge, all_isotopes)

\* self.formula(): the defaults of line 319
default_formula(m) == formula(m, "plain", TRUE, TRUE, FALSE, NoTemplate)

\* Molecule(text) that raised e: no object
NoMolecule(e) == Raised(e) @@ [abundance |-> One, molecular_formula |-> ""]

\* line 191
init_formula(p, a) ==
    IF a.error # "" THEN NoMolecule(a.error)
    ELSE p @@ [abundance |-> a.abundance, molecular_formula |-> default_formula(p).text]

\* line 190
init_abundance(p) ==
    IF p.error # "" THEN NoMolecule(p.error)
    ELSE init_formula(p, relative_abundance(p.isotopes, p.counts))

\* Molecule(text): parse, relative_abundance and formula, as Molecule.__init__
\* calls them; error names the exception that leaves no object
Molecule(text) == init_abundance(parse(text))

-----------------------------------------------------------------------------
(* interference() of src/main.py *)

\* Python's None
None == "None"

\* pd.np.inf, a quotient, or the nan of 0/0
Inf == [inf |-> TRUE, nan |-> FALSE, num |-> 0, den |-> 0]
Quotient(a, b) ==
    IF b # 0 THEN [inf |-> FALSE, nan |-> FALSE, num |-> a, den |-> b]
    ELSE IF a = 0 THEN [inf |-> FALSE, nan |-> TRUE, num |-> 0, den |-> 0]
    ELSE Inf

Abs(x) == IF x < 0 THEN -x ELSE x

\* the abundance 0
Zero == [coef |-> 0, exps |-> [r \in Rows |-> 0]]

RECURSIVE Flatten(_)
Flatten(qq) == IF qq = <<>> THEN <<>> ELSE Head(qq) \o Flatten(Tail(qq))

\* itertools.combinations_with_replacement(pool, size), as the positions in
\* the pool, from position lo on
RECURSIVE CombinationsWR(_, _, _)
Prepend(i, rest) == [c \in DOMAIN rest |-> <<i>> \o rest[c]]
CombinationsWR(lo, n, size) ==
    IF size = 0 THEN << <<>> >>
    ELSE Flatten([k \in 1..(n - lo + 1) |->
            Prepend(lo + k - 1, CombinationsWR(lo + k - 1, n, size - 1))])

\* lines 100-106 with range(0, maxsize + 1)
AllCombos_FromSizeZero(pool, maxsize) ==
    Flatten([size \in 1..(maxsize + 1) |-> CombinationsWR(1, Len(pool), size - 1)])

\* lines 100-106: the combinations of every size from 1 to maxsize
AllCombos(pool, maxsize) ==
    Flatten([size \in 1..maxsize |-> CombinationsWR(1, Len(pool), size)])

\* line 99: periodic_table[periodic_table['element'].isin(atoms)]
picked_atoms(atoms) == InOrder({r \in Rows : ElementOf(r) \in Range(atoms)})

\* ' '.join(m) for a combination of isotopes
RECURSIVE JoinChars(_)
JoinChars(q) ==
    IF q = <<>> THEN <<>>
    ELSE IF Len(q) = 1 THEN q[1]
    ELSE q[1] \o <<" ">> \o JoinChars(Tail(q))

\* lines 124-127
charge_str(ch, sign) ==
    IF ch = 1 THEN <<" ", sign>> ELSE <<" ">> \o NatChars(ch) \o <<sign>>

\* lines 129-133
MassToCharge(m, ch, sign) ==
    IF sign = "+" THEN (m \div ch) - mass_electron ELSE (m \div ch) + mass_electron

\* lines 108-111: the columns 'molecule' and 'mass/charge' of one combination
molecules(pool, combo) == JoinChars([i \in DOMAIN combo |-> IsotopeChars(pool[combo[i]])])
masses(pool, combo) == SumSeq([i \in DOMAIN combo |-> periodic_table[pool[combo[i]]].mass])

\* lines 114 and 118-134: the rows of one charge
RowsOfCharge(pool, combos, ch, sign, ignore) ==
    [c \in DOMAIN combos |->
        IF ignore \/ ch = 0
        THEN [molecule |-> molecules(pool, combos[c]), charge |-> 0,
              mz |-> masses(pool, combos[c])]
        ELSE [molecule |-> molecules(pool, combos[c]) \o charge_str(ch, sign),
              charge |-> ch, mz |-> MassToCharge(masses(pool, combos[c]), ch, sign)]]

\* lines 116-134 without the test of line 113: the charges are used for every
\* sign
data_w_charge_ChargesKept(pool, combos, charges, sign) ==
    Flatten([k \in DOMAIN charges |-> RowsOfCharge(pool, combos, charges[k], sign, FALSE)])

\* lines 113-135
data_w_charge(pool, combos, charges, sign) ==
    IF sign \in {"o", "0"} THEN RowsOfCharge(pool, combos, 0, sign, TRUE)
    ELSE Flatten([k \in DOMAIN charges |->
            RowsOfCharge(pool, combos, charges[k], sign, FALSE)])

\* lines 90-94: no target
NoTarget ==
    [error |-> "", given |-> FALSE, molecule |-> None, mz |-> 0, charge |-> 0,
     chargesign |-> "0", abun |-> Zero]

\* the target that raised e
BadTarget(e) ==
    [error |-> e, given |-> TRUE, molecule |-> None, mz |-> 0, charge |-> 0,
     chargesign |-> "", abun |-> Zero]

\* lines 75-89 without the division of lines 87-89
TargetMolecule_NotDivided(target, m, charges, sign) ==
    IF m.error # "" THEN BadTarget(m.error)
    ELSE IF m.charge = 0 /\ charges = <<>> THEN BadTarget("IndexError")
    ELSE [error |-> "", given |-> TRUE, molecule |-> Str(target.text),
          mz |-> m.mass,
          charge |-> IF m.charge # 0 THEN m.charge ELSE charges[1],
          chargesign |-> IF m.chargesign # "" THEN m.chargesign ELSE sign,
          abun |-> m.abundance]

\* lines 75-89: the target is a formula, m its Molecule
TargetMolecule(target, m, charges, sign) ==
    IF m.error # "" THEN BadTarget(m.error)
    ELSE IF m.charge = 0 /\ charges = <<>> THEN BadTarget("IndexError")
    ELSE [error |-> "", given |-> TRUE, molecule |-> Str(target.text),
          mz |-> IF m.charge > 0 THEN m.mass \div m.charge ELSE m.mass,
          charge |-> IF m.charge # 0 THEN m.charge ELSE charges[1],
          chargesign |-> IF m.chargesign # "" THEN m.chargesign ELSE sign,
          abun |-> m.abundance]

\* lines 68-94: the target; error is the exception of Molecule(target) or of
\* charge[0]
ResolveTarget(target, charges, sign) ==
    IF target.kind = "none" \/ (target.kind = "number" /\ target.value = 0)
         \/ (target.kind = "text" /\ target.text = <<>>)
    THEN NoTarget
    ELSE IF target.kind = "number"
    THEN [error |-> "", given |-> TRUE, molecule |-> ToString(target.value),
          mz |-> target.value, charge |-> 0, chargesign |-> "o", abun |-> One]
    ELSE TargetMolecule(target, Molecule(target.text), charges, sign)

\* lines 138-139 with the upper bound exclusive
InRange_UpperExclusive(d, t, targetrange) ==
    d.mz >= t.mz - targetrange /\ d.mz < t.mz + targetrange

\* lines 137-144
InRange(d, t, targetrange) == d.mz >= t.mz - targetrange /\ d.mz <= t.mz + targetrange
\* lines 140-141 with the difference without its sign
WithDiff_Unsigned(d, t) ==
    d @@ [diff |-> Abs(d.mz - t.mz), MRP |-> Quotient(t.mz, Abs(d.mz - t.mz))]

\* lines 140-141
WithDiff(d, t) == d @@ [diff |-> d.mz - t.mz, MRP |-> Quotient(t.mz, Abs(d.mz - t.mz))]
Filtered(data, t, targetrange) ==
    IF t.given
    THEN [i \in DOMAIN SelectSeq(data, LAMBDA d : InRange(d, t, targetrange)) |->
            WithDiff(SelectSeq(data, LAMBDA d : InRange(d, t, targetrange))[i], t)]
    ELSE [i \in DOMAIN data |-> data[i] @@ [diff |-> 0, MRP |-> Inf]]

\* lines 146-155: the Molecule m of a row gives its formula and probability;
\* the row keeps that Molecule's isotopes and counts in m
Rendered(d, m, style) ==
    [molecule |-> formula(m, style, TRUE, TRUE, FALSE, NoTemplate).text,
     charge |-> d.charge, mz |-> d.mz, diff |-> d.diff,
     MRP |-> d.MRP, probability |-> m.abundance, target |-> FALSE,
     m |-> [isotopes |-> m.isotopes, counts |-> m.counts]]

\* lines 156-165
target_data(t) ==
    [molecule |-> t.molecule, charge |-> t.charge, mz |-> t.mz, diff |-> 0, MRP |-> Inf,
     probability |-> t.abun, target |-> TRUE,
     m |-> [isotopes |-> <<>>, counts |-> <<>>]]

Raise(e) == [error |-> e, rows |-> <<>>]

\* the first exception of the loop of lines 146-151, "" if there is none: each
\* turn builds the row's Molecule and then renders it
FirstError(mols, style) ==
    IF mols = <<>> THEN ""
    ELSE IF ~SelectTemplate(style, NoTemplate).ok
    THEN (IF mols[1].error # "" THEN mols[1].error ELSE "ValueError")
    ELSE IF \E i \in DOMAIN mols : mols[i].error # ""
    THEN mols[Min({i \in DOMAIN mols : mols[i].error # ""})].error
    ELSE ""

\* lines 146-167: kept the rows in range, mols the Molecule of each
interference_rows(kept, mols, t, style) ==
    IF FirstError(mols, style) # "" THEN Raise(FirstError(mols, style))
    ELSE [error |-> "",
          rows |-> [i \in DOMAIN kept |-> Rendered(kept[i], mols[i], style)]
                      \o <<target_data(t)>>]

\* lines 146-151: the Molecule of every row
interference_kept(kept, t, style) ==
    interference_rows(kept, [i \in DOMAIN kept |-> Molecule(kept[i].molecule)], t, style)

\* lines 99-144, t the target
interference_target(atoms, t, targetrange, maxsize, charges, sign, style) ==
    IF t.error # "" THEN Raise(t.error)
    ELSE IF sign \notin {"o", "0"} /\ charges = <<>> THEN Raise("ValueError")
    ELSE interference_kept(
             Filtered(data_w_charge(picked_atoms(atoms),
                                    AllCombos(picked_atoms(atoms), maxsize), charges, sign),
                      t, targetrange),
             t, style)

\* lines 49-54 and 68-167 without lines 56-57: a sign that is none of the four
\* is used as it is, and lines 129-132 treat it as '-'
interference_SignUnchecked(atoms, target, targetrange, maxsize, charge_arg, sign, style) ==
    IF charge_arg.kind = "number" THEN Raise("TypeError")
    ELSE IF charge_arg.kind # "list" THEN Raise("ValueError")
    ELSE interference_target(atoms, ResolveTarget(target, charge_arg.value, sign),
                             targetrange, maxsize, charge_arg.value, sign, style)

\* interference(atoms, target, targetrange, maxsize, charge, chargesign, style):
\* the rows of the table returned, or the exception raised
interference(atoms, target, targetrange, maxsize, charge_arg, sign, style) ==
    IF charge_arg.kind = "number" THEN Raise("TypeError")
    ELSE IF charge_arg.kind # "list" THEN Raise("ValueError")
    ELSE IF sign \notin {"+", "-", "o", "0"} THEN Raise("ValueError")
    ELSE interference_target(atoms, ResolveTarget(target, charge_arg.value, sign),
                             targetrange, maxsize, charge_arg.value, sign, style)

-----------------------------------------------------------------------------
(* The formula texts given to Molecule(): up to MaxUnits units, written    *)
(* one after the other with or without a delimiter, and a charge.          *)

MaxUnits == 2

UnitTexts ==
    { <<"C">>, <<"1", "2", "C">>, <<"1", "3", "C">>, <<"[", "1", "3", "]", "C">>,
      <<"H">>, <<"H", "2">>, <<"D">>, <<"O">>, <<"1", "8", "O">>, <<"C", "0">>, <<"X">> }

Delimiters == { <<>>, <<" ">>, <<",">> }

ChargeTexts ==
    { <<>>, <<"+">>, <<"-">>, <<" ", "2", "-">>, <<" ", "o">>, <<"[", "2", "+", "]">> }

\* a unit that starts with a digit is not written directly after another:
\* the digits would read as the count of the unit before
Joins(d, u) == ~(d = <<>> /\ u[1] \in Digits)

RECURSIVE Bodies(_)
Bodies(n) ==
    IF n = 0 THEN {}
    ELSE IF n = 1 THEN UnitTexts
    ELSE {t[1] \o t[2] \o t[3] :
            t \in {x \in Bodies(n - 1) \X Delimiters \X UnitTexts : Joins(x[2], x[3])}}

\* texts of the docstrings and of the specification
T_CHHHH == <<"C", " ", "H", " ", "H", " ", "H", " ", "H">>
T_CH4 == <<"C", "H", "4">>
T_12C_1H4 == <<"1", "2", "C", " ", "1", "H", "4">>
T_H2O == <<"H", "2", "O">>
T_1H2_16O == <<"1", "H", "2", " ", "1", "6", "O">>
T_D2O == <<"D", "2", "O">>
T_2H2_16O == <<"2", "H", "2", " ", "1", "6", "O">>
T_O_18O == <<"O", " ", "1", "8", "O">>
T_C_13C == <<"C", " ", "1", "3", "C">>
T_C0 == <<"C", "0">>
T_12C_16O2_18O == <<"1", "2", "C", " ", "1", "6", "O", "2", " ", "1", "8", "O">>
T_16O2_18O == <<"1", "6", "O", "2", " ", "1", "8", "O">>

T_T == <<"T">>
T_14C == <<"1", "4", "C">>
T_C_12C == <<"C", ",", "1", "2", "C">>
T_H2O_0 == <<"H", "2", "O", ",", "0">>
T_3D == <<"3", "D">>

Examples ==
    { <<>>, T_CHHHH, T_CH4, T_12C_1H4, T_H2O, T_1H2_16O, T_D2O, T_2H2_16O, T_O_18O,
      T_C_13C, T_C0, T_12C_16O2_18O, T_16O2_18O, T_T, T_14C, T_C_12C, T_H2O_0, T_3D }

Inputs ==
    {b \o c : b \in UNION {Bodies(n) : n \in 1..MaxUnits}, c \in ChargeTexts} \cup Examples

-----------------------------------------------------------------------------
(* Molecule.__init__ *)

NoCall == [atoms |-> <<>>, target |-> [kind |-> "none", value |-> 0, text |-> <<>>],
           targetrange |-> 0, maxsize |-> 0, charge |-> [kind |-> "list", value |-> <<>>],
           chargesign |-> "", style |-> ""]
NoResult == [error |-> "pending", rows |-> <<>>]

\* no MainWidget: the program runs without the window
NoWidget == [pc |-> "none"]

\* the Molecule as the state holds it
Self ==
    [elements |-> elements, atomic_masses |-> atomic_masses, counts |-> counts,
     isotopes |-> isotopes, charge |-> charge, chargesign |-> chargesign]

\* lines 175-187
Init ==
    /\ input \in Inputs
    /\ pc = "new"
    /\ error = ""
    /\ elements = <<>>
    /\ atomic_masses = <<>>
    /\ counts = <<>>
    /\ isotopes = <<>>
    /\ mass = 0
    /\ abundance = One
    /\ charge = 0
    /\ chargesign = ""
    /\ molecular_formula = ""
    /\ call = NoCall
    /\ result = NoResult
    /\ loop_size = 0
    /\ widget = NoWidget

\* line 189: self.parse()
Parse ==
    /\ pc = "new"
    /\ \E p \in {parse(input)} :
           IF p.error # ""
           THEN /\ pc' = "failed"
                /\ error' = p.error
                /\ UNCHANGED <<elements, atomic_masses, counts, isotopes, mass, charge,
                               chargesign>>
           ELSE /\ pc' = "parsed"
                /\ elements' = p.elements
                /\ atomic_masses' = p.atomic_masses
                /\ counts' = p.counts
                /\ isotopes' = p.isotopes
                /\ mass' = p.mass
                /\ charge' = p.charge
                /\ chargesign' = p.chargesign
                /\ UNCHANGED error
    /\ UNCHANGED <<input, abundance, molecular_formula, ivars, uvars>>

\* line 190: self.relative_abundance()
RelativeAbundance ==
    /\ pc = "parsed"
    /\ \E a \in {relative_abundance(isotopes, counts)} :
           IF a.error # ""
           THEN pc' = "failed" /\ error' = a.error /\ UNCHANGED abundance
           ELSE pc' = "abundance" /\ abundance' = a.abundance /\ UNCHANGED error
    /\ UNCHANGED <<input, elements, atomic_masses, counts, isotopes, mass, charge,
                   chargesign, molecular_formula, ivars, uvars>>

\* line 191: self.molecular_formula = self.formula()
SetFormula ==
    /\ pc = "abundance"
    /\ molecular_formula' = default_formula(Self).text
    /\ pc' = "done"
    /\ UNCHANGED <<input, error, elements, atomic_masses, counts, isotopes, mass,
                   abundance, charge, chargesign, ivars, uvars>>

Next == Parse \/ RelativeAbundance \/ SetFormula

Spec == Init /\ [][Next]_vars

-----------------------------------------------------------------------------
(* Calls of Molecule.formula on a constructed Molecule *)

\* a template given with style='custom'
custom_template ==
    [begin |-> "", atomic_mass |-> <<"^", "">>, element |-> <<"", "">>,
     count |-> <<"_", "">>, charge |-> <<"(", ")">>,
     minorjoin |-> "", majorjoin |-> ".", minus |-> "-", end |-> ""]

\* the custom template without its 'count' key
template_without_count ==
    [k \in (DOMAIN custom_template) \ {"count"} |-> custom_template[k]]

\* the styles of lines 369-379, and one that is none of them
FormulaStyles ==
    {"html", "latex", "mhchem", "molecular", "plain", "isotope", "custom", "text"}

\* the templates passed with a style: a dict only with style='custom'
TemplatesOf(style) ==
    IF style = "custom" THEN {NoTemplate, custom_template, template_without_count}
    ELSE {NoTemplate}

\* lines 360-367 on the list self.elements itself, without the copy of line 356
elements_after_NoCopy(m, HtoD) == [n \in DOMAIN m.elements |-> elem(m, HtoD, n)]

\* lines 355-367: self.elements after the method; elem is a copy (line 356),
\* so the 'D' of line 367 is written to the copy
elements_after(m, HtoD) == m.elements

\* m.formula(style, HtoD, show_charge, all_isotopes, template) of the Molecule
\* constructed: the text returned, or the exception; nth tells the first call
\* on the Molecule (1) from the later ones (2)
FormulaCall ==
    \E style \in FormulaStyles, HtoD \in BOOLEAN, show_charge \in BOOLEAN,
       all_isotopes \in BOOLEAN :
        \E template \in TemplatesOf(style) :
            /\ call' = [style |-> style, HtoD |-> HtoD, show_charge |-> show_charge,
                        all_isotopes |-> all_isotopes, template |-> template,
                        nth |-> IF result = NoResult THEN 1 ELSE 2]
            /\ result' = formula(Self, style, HtoD, show_charge, all_isotopes, template)
            /\ elements' = elements_after(Self, HtoD)
            /\ UNCHANGED <<input, pc, error, atomic_masses, counts, isotopes, mass,
                           abundance, charge, chargesign, molecular_formula, uvars>>

\* the first call of m.formula
Formula ==
    /\ pc = "done"
    /\ result = NoResult
    /\ FormulaCall

\* a further call of m.formula on the same Molecule
FormulaAgain ==
    /\ pc = "done"
    /\ result # NoResult
    /\ FormulaCall

\* the texts of up to MaxFormulaUnits units, and the examples
MaxFormulaUnits == 1
FormulaInputs ==
    {b \o c : b \in UNION {Bodies(n) : n \in 1..MaxFormulaUnits}, c \in ChargeTexts}
        \cup Examples

InitFormula ==
    /\ input \in FormulaInputs
    /\ pc = "new"
    /\ error = ""
    /\ elements = <<>>
    /\ atomic_masses = <<>>
    /\ counts = <<>>
    /\ isotopes = <<>>
    /\ mass = 0
    /\ abundance = One
    /\ charge = 0
    /\ chargesign = ""
    /\ molecular_formula = ""
    /\ call = NoCall
    /\ result = NoResult
    /\ loop_size = 0
    /\ widget = NoWidget

NextFormula == Parse \/ RelativeAbundance \/ SetFormula \/ Formula

SpecFormula == InitFormula /\ [][NextFormula]_vars

\* sequences of calls of m.formula on the Molecules of the examples
InitCalls ==
    /\ input \in Examples
    /\ pc = "new"
    /\ error = ""
    /\ elements = <<>>
    /\ atomic_masses = <<>>
    /\ counts = <<>>
    /\ isotopes = <<>>
    /\ mass = 0
    /\ abundance = One
    /\ charge = 0
    /\ chargesign = ""
    /\ molecular_formula = ""
    /\ call = NoCall
    /\ result = NoResult
    /\ loop_size = 0
    /\ widget = NoWidget

NextCalls == Parse \/ RelativeAbundance \/ SetFormula \/ Formula \/ FormulaAgain

SpecCalls == InitCalls /\ [][NextCalls]_vars

-----------------------------------------------------------------------------
(* Properties of Molecule, checked under Spec *)

\* Molecule.parse has returned without an exception
Parsed == pc \in {"parsed", "abundance", "done"} \/ (pc = "failed" /\ error = "ValueError")

\* the Molecule of each example text
ExampleMolecules == [e \in Examples |-> Molecule(e)]

\* how often a composition holds the isotope of table row r
CountOfIsotope(isos, cnts, r) ==
    SumSeq([k \in DOMAIN isos |-> IF isos[k] = IsotopeOf(r) THEN cnts[k] ELSE 0])

\* the counts a composition gives to the isotopes of one parent that it holds,
\* in table order
CountsOfParent(isos, cnts, major) ==
    [i \in DOMAIN InOrder({r \in Rows : periodic_table[r].major = major
                                         /\ IsotopeOf(r) \in Range(isos)}) |->
        CountOfIsotope(isos, cnts,
            InOrder({r \in Rows : periodic_table[r].major = major
                                   /\ IsotopeOf(r) \in Range(isos)})[i])]

\* the parents of a composition, each once, as the first table row of each
ParentsOf(isos) ==
    InOrder({Min({q \in Rows : periodic_table[q].major = periodic_table[r].major}) :
                r \in {r \in Rows : IsotopeOf(r) \in Range(isos)}})

\* the product over the parents of n!/(c_1!*...*c_k!) * p_1^c_1*...*p_k^c_k,
\* c_i the count of isotope i itself
MultinomialAbundance(isos, cnts) ==
    [coef |-> Product([i \in DOMAIN ParentsOf(isos) |->
                 Multinomial(CountsOfParent(isos, cnts,
                                 periodic_table[ParentsOf(isos)[i]].major))]),
     exps |-> [r \in Rows |-> CountOfIsotope(isos, cnts, r)]]

\* C1: whenever Molecule has computed its abundance, the abundance is the
\* product over the parent elements of n!/(c_1!*...*c_k!) * p_1^c_1*...*p_k^c_k
\* with c_i the count of isotope i itself and p_i the abundance of that isotope.
C1_AbundanceIsMultinomial ==
    pc \in {"abundance", "done"} => abundance = MultinomialAbundance(isotopes, counts)

\* "12C 1H4" is constructed, and 12C has the exponent 4 and 1H the exponent 1
C1_CountsGivenToOtherIsotopes ==
    /\ pc = "done"
    /\ input = T_12C_1H4
    /\ isotopes = <<"12C", "1H">>
    /\ counts = <<1, 4>>
    /\ abundance.exps[3] = 4
    /\ abundance.exps[1] = 1

\* C2: after Molecule.parse has succeeded no isotope occurs twice in
\* Molecule.isotopes, and "C H H H H" has the composition of "CH4", one 12C and
\* four 1H.
C2_IsotopesMerged ==
    Parsed =>
        /\ \A i, j \in DOMAIN isotopes : i # j => isotopes[i] # isotopes[j]
        /\ input = T_CHHHH =>
              /\ isotopes = ExampleMolecules[T_CH4].isotopes
              /\ counts = ExampleMolecules[T_CH4].counts
              /\ \E k \in DOMAIN isotopes : isotopes[k] = "1H" /\ counts[k] = 4

\* "C,12C" is parsed into two entries 12C
C2_TwoEntriesOfOneIsotope ==
    /\ pc = "parsed"
    /\ input = T_C_12C
    /\ isotopes = <<"12C", "12C">>
    /\ counts = <<1, 1>>

\* two molecules hold the same isotopes as often and have the same charge
SameMultiset(a, b) ==
    /\ \A r \in Rows : CountOfIsotope(a.isotopes, a.counts, r)
                          = CountOfIsotope(b.isotopes, b.counts, r)
    /\ a.charge = b.charge
    /\ a.chargesign = b.chargesign

\* C3: a constructed Molecule has the isotopes, in the same order, the counts
\* and the plain rendering of every example text that denotes the same isotope
\* multiset and charge, and the plain rendering of "H2O" and of "1H2 16O" is
\* "H2O".
C3_NotationsAgree ==
    pc = "done" =>
        /\ \A e \in Examples :
              (ExampleMolecules[e].error = "" /\ SameMultiset(Self, ExampleMolecules[e])) =>
                  /\ isotopes = ExampleMolecules[e].isotopes
                  /\ counts = ExampleMolecules[e].counts
                  /\ molecular_formula = ExampleMolecules[e].molecular_formula
        /\ input \in {T_H2O, T_1H2_16O} => molecular_formula = "H2O"

\* "1H2 16O" is constructed with 16O before 1H and rendered "O H2"
C3_IsotopeNotationOrder ==
    /\ pc = "done"
    /\ input = T_1H2_16O
    /\ isotopes = <<"16O", "1H">>
    /\ ExampleMolecules[T_H2O].isotopes = <<"1H", "16O">>
    /\ molecular_formula = "O H2"
    /\ ExampleMolecules[T_H2O].molecular_formula = "H2 O"

\* a character between the units that is none of A-Z, a-z, 0-9, +, -, [ and ]
Delimited(text) ==
    \E i \in DOMAIN text : text[i] \notin AlphaNums \cup {"+", "-", "[", "]"}

\* C4: a text with a delimiter in it is read as isotope notation, so that
\* "O 18O" is one 16O and one 18O and "C 13C" is one 12C and one 13C.
C4_DelimitedIsIsotopeNotation ==
    (Parsed /\ Delimited(Strip(input))) =>
        /\ ~mn_molecule(Strip(input)).ok
        /\ input = T_O_18O => isotopes = <<"16O", "18O">> /\ counts = <<1, 1>>
        /\ input = T_C_13C => isotopes = <<"12C", "13C">> /\ counts = <<1, 1>>

\* "O 18O" is parsed as molecular notation into nineteen 16O
C4_MassNumberReadAsCount ==
    /\ pc = "parsed"
    /\ input = T_O_18O
    /\ mn_molecule(input).ok
    /\ isotopes = <<"16O">>
    /\ counts = <<19>>

\* C5: "D2O" and "2H2 16O" are constructed with the same composition, two 2H
\* before one 16O, both are rendered "D2O", and "T" is constructed as 3H.
C5_AliasesResolved ==
    /\ (pc = "done" /\ input \in {T_D2O, T_2H2_16O}) =>
          /\ isotopes = <<"2H", "16O">>
          /\ counts = <<2, 1>>
          /\ molecular_formula = "D2O"
    /\ (pc # "new" /\ input = T_T) => (Parsed /\ isotopes = <<"3H">>)

\* "2H2 16O" is constructed with 16O first and rendered "O D2"
C5_DeuteriumOrder ==
    /\ pc = "done"
    /\ input = T_2H2_16O
    /\ isotopes = <<"16O", "2H">>
    /\ molecular_formula = "O D2"
    /\ ExampleMolecules[T_D2O].molecular_formula = "D2 O"

\* the masses of the isotopes of the state's Molecule times their counts
IsotopeMassSum ==
    SumSeq([k \in DOMAIN isotopes |->
        periodic_table[CHOOSE r \in Rows : IsotopeOf(r) = isotopes[k]].mass * counts[k]])

\* C6: after Molecule.parse, mass is the sum of isotope mass times count, less
\* charge times the electron mass for the sign '+', plus charge times the
\* electron mass for the sign '-', and the sum itself for a neutral molecule.
C6_MassOfIon ==
    Parsed =>
        /\ chargesign = "+" => mass = IsotopeMassSum - charge * mass_electron
        /\ chargesign = "-" => mass = IsotopeMassSum + charge * mass_electron
        /\ chargesign \notin {"+", "-"} => mass = IsotopeMassSum
        /\ charge = 0 => mass = IsotopeMassSum

\* a negative ion of charge 2 with two isotopes has been parsed
C6_DoublyNegative ==
    /\ pc = "parsed"
    /\ chargesign = "-"
    /\ charge = 2
    /\ Len(isotopes) = 2
    /\ mass = IsotopeMassSum + 2 * mass_electron

\* the text ends with the characters of suffix
EndsWith(text, suffix) ==
    /\ Len(text) >= Len(suffix)
    /\ SubSeq(text, Len(text) - Len(suffix) + 1, Len(text)) = suffix

\* C7: after Molecule.parse, a text with no charge token has charge 0 and the
\* empty sign, a sign token without magnitude has charge 1, and a neutral
\* marker "o" or "0" has charge 0 whatever digits the text holds.
C7_ChargeOfToken ==
    Parsed /\ input # <<>> =>
        /\ ParseInput(Strip(input)).charge_sign = <<>> => charge = 0 /\ chargesign = ""
        /\ (ParseInput(Strip(input)).charge_sign \in {<<"+">>, <<"-">>}
               /\ ParseInput(Strip(input)).charge_count = <<>>) => charge = 1
        /\ ParseInput(Strip(input)).charge_sign \in {<<"o">>, <<"0">>} => charge = 0
        /\ EndsWith(input, <<" ", "o">>) => charge = 0 /\ chargesign = "o"
        /\ EndsWith(input, <<"+">>) /\ ~EndsWith(input, <<"2", "+">>) =>
              charge = 1 /\ chargesign = "+"

\* a text with a count of 2 and the neutral marker "o" has been parsed
C7_NeutralMarkerWithDigits ==
    /\ pc = "parsed"
    /\ EndsWith(input, <<"H", "2", " ", "o">>)
    /\ chargesign = "o"
    /\ charge = 0
    /\ \E k \in DOMAIN counts : counts[k] = 2

\* C8: a constructed Molecule has at least one entry and every entry has a
\* count of at least 1.
C8_EntriesAndCountsPositive ==
    pc = "done" => (isotopes # <<>> /\ \A k \in DOMAIN counts : counts[k] >= 1)

\* "C0" is constructed with the count 0
C8_CountZeroConstructed ==
    /\ pc = "done"
    /\ input = T_C0
    /\ isotopes = <<"12C">>
    /\ counts = <<0>>

\* a unit of the ParseResults names an element that is not in the table, or a
\* mass number and an element that are not a row of it (D is an alias of 2H)
UnknownUnit(u) ==
    /\ u.element # <<"D">>
    /\ IF u.atomic_mass = <<>> THEN \A r \in Rows : ElementOf(r) # Str(u.element)
       ELSE \A r \in Rows : IsotopeChars(r) # NatChars(ToInt(u.atomic_mass)) \o u.element

KeyChars(k) == NatChars(atomic_masses[k]) \o <<elements[k]>>

\* C25: after Molecule.parse the entries are in ascending order of their
\* isotope key, the mass number followed by the element, as Python orders
\* strings.
C25_EntriesAscending ==
    pc \in {"parsed", "abundance", "done"} =>
        \A k \in 1..(Len(isotopes) - 1) : StrLess(KeyChars(k), KeyChars(k + 1))

\* "H2O" is parsed with 1H before 16O, the order of the labels H and O as
\* written, while the key 16O is less than the key 1H
C25_WaterInLabelOrder ==
    /\ pc = "parsed"
    /\ input = T_H2O
    /\ isotopes = <<"1H", "16O">>
    /\ StrLess(KeyChars(2), KeyChars(1))

-----------------------------------------------------------------------------
(* Properties of Molecule.formula, checked under SpecFormula *)

\* the call of m.formula() has returned its text
FormulaReturned == pc = "done" /\ result # NoResult /\ result.error = ""

\* the template of the style of the call
Templ == SelectTemplate(call.style, call.template).templ

\* the text of the units alone, and with the charge text x after them
UnitsOnly ==
    [n \in DOMAIN elements |-> unit_str(Self, Templ, call.HtoD, call.all_isotopes, n)]
TextWithoutCharge == Templ.begin \o Join(UnitsOnly, Templ.majorjoin) \o Templ.end
TextWithCharge(x) ==
    Templ.begin \o Join(UnitsOnly \o <<Format(Templ.charge, x)>>, Templ.majorjoin)
        \o Templ.end

\* the sign as the style writes it: a style may give '-' its own text
\* (html: &ndash;)
SignText == IF chargesign = "-" /\ Templ.minus # "" THEN Templ.minus ELSE chargesign

\* C20: in every style the text Molecule.formula returns ends the units with
\* the charge: the bare sign, no digit, for a charge of 1; nothing for a
\* charge of 0; "2+" for a charge of 2 with sign '+'; and nothing for any
\* charge with show_charge=False.
C20_ChargeRendered ==
    FormulaReturned =>
        /\ ~call.show_charge => result.text = TextWithoutCharge
        /\ charge = 0 => result.text = TextWithoutCharge
        /\ (call.show_charge /\ charge = 1) =>
              /\ chargesign \in {"+", "-"}
              /\ result.text = TextWithCharge(SignText)
        /\ (call.show_charge /\ charge = 2 /\ chargesign = "+") =>
              result.text = TextWithCharge("2+")

\* Molecule('O-').formula(style='html') has returned the text of a negative ion
\* of charge 1
C20_SinglyNegativeHtml ==
    /\ FormulaReturned
    /\ input = <<"O", "-">>
    /\ charge = 1
    /\ chargesign = "-"
    /\ call.style = "html"
    /\ call.show_charge
    /\ result.text = "O<sup>&ndash;</sup>"

\* unit n is hydrogen of mass 1 or 2 and HtoD writes it as a letter
HydrogenAsLetter(n) == call.HtoD /\ elements[n] = "H" /\ atomic_masses[n] \in {1, 2}

\* unit n is the major isotope of its element in the periodic table
IsMajor(n) ==
    \E r \in Rows :
        /\ Str(periodic_table[r].elem) = elements[n]
        /\ periodic_table[r].am = atomic_masses[n]
        /\ periodic_table[r].major = ToString(atomic_masses[n]) \o elements[n]

\* the call writes the mass number of unit n
MassNumberShown(n) ==
    ~HydrogenAsLetter(n) /\ (call.all_isotopes \/ ~IsMajor(n))

\* the symbol of unit n
SymbolOf(n) ==
    IF HydrogenAsLetter(n) /\ atomic_masses[n] = 2 THEN "D" ELSE elements[n]

\* unit n with its mass number where MassNumberShown, and its count
UnitWithMassNumber(n) ==
    Join(<<IF MassNumberShown(n)
           THEN Format(Templ.atomic_mass, ToString(atomic_masses[n])) ELSE "",
           Format(Templ.element, SymbolOf(n)),
           IF counts[n] > 1 THEN Format(Templ.count, ToString(counts[n])) ELSE "">>,
         Templ.minorjoin)

IsHydrogen(n) == elements[n] = "H" /\ atomic_masses[n] \in {1, 2}

\* the call leaves every option but HtoD at its default (line 319)
OtherOptionsDefault ==
    /\ call.style = "plain"
    /\ call.show_charge
    /\ ~call.all_isotopes
    /\ call.template = NoTemplate

\* hydrogen unit n as a letter (H, D) or with its mass number (1H, 2H);
\* any other unit as UnitWithMassNumber
UnitOfHydrogen(n) ==
    IF ~IsHydrogen(n) THEN UnitWithMassNumber(n)
    ELSE Join(<<IF call.HtoD THEN ""
                ELSE Format(Templ.atomic_mass, ToString(atomic_masses[n])),
                Format(Templ.element,
                       IF call.HtoD /\ atomic_masses[n] = 2 THEN "D" ELSE "H"),
                IF counts[n] > 1 THEN Format(Templ.count, ToString(counts[n])) ELSE "">>,
              Templ.minorjoin)

\* C22: Molecule.formula with HtoD=True writes hydrogen of mass 1 as H and of
\* mass 2 as D; with HtoD=False and every other option at its default it
\* writes them with their mass numbers, 1H and 2H.
C22_HydrogenRendered ==
    (FormulaReturned /\ (call.HtoD \/ OtherOptionsDefault)) =>
        result.text = formula_join(Templ, [n \in DOMAIN elements |-> UnitOfHydrogen(n)],
                                   ChargeText(Self, Templ, call.show_charge))

\* Molecule('H2O').formula(HtoD=False) has returned H without the mass number
C22_WaterWithoutMassNumber ==
    /\ FormulaReturned
    /\ input = T_H2O
    /\ ~call.HtoD
    /\ OtherOptionsDefault
    /\ \E n \in DOMAIN elements : IsHydrogen(n) /\ atomic_masses[n] = 1
    /\ result.text \in {"H2 O", "O H2"}

\* the fields of a template (lines 342-345)
TemplateFields ==
    {"begin", "atomic_mass", "element", "count", "charge", "minorjoin", "majorjoin",
     "minus", "end"}

\* the style of the call is none of the seven; custom without a template;
\* custom with a template that lacks a field
UnknownStyle ==
    call.style \notin {"html", "latex", "mhchem", "plain", "isotope", "molecular", "custom"}
CustomWithoutTemplate == call.style = "custom" /\ call.template = NoTemplate
CustomLacksField ==
    /\ call.style = "custom"
    /\ call.template # NoTemplate
    /\ ~(TemplateFields \subseteq DOMAIN call.template)

\* C23: Molecule.formula raises and returns no text when the style is none of
\* html, latex, mhchem, plain, isotope, molecular and custom, when the style is
\* custom and no template is given, and when the style is custom and the
\* template lacks one of the fields.
C23_BadConfigurationRaises ==
    (pc = "done" /\ result # NoResult
        /\ (UnknownStyle \/ CustomWithoutTemplate \/ CustomLacksField)) =>
        /\ result.error # ""
        /\ result.text = ""

\* Molecule('O-').formula(style='custom', template=...) with a template
\* without 'count' has returned a text: no unit has a count to write
C23_TextFromPartialTemplate ==
    /\ FormulaReturned
    /\ input = <<"O", "-">>
    /\ CustomLacksField
    /\ call.HtoD /\ call.show_charge /\ ~call.all_isotopes
    /\ \A n \in DOMAIN counts : counts[n] = 1
    /\ result.text = "O.(-)"

-----------------------------------------------------------------------------
(* Sequences of calls of Molecule.formula, checked under SpecCalls *)

\* the Molecule as Molecule(input) constructed it
Constructed == Molecule(input)

\* C24: after any sequence of calls of Molecule.formula, those that raise
\* included, the Molecule has the elements, atomic_masses, counts, charge,
\* chargesign, mass and abundance it was constructed with, and every call
\* returns what a call with the same style and options returns on the Molecule
\* as constructed, so two calls with the same style and options return the
\* same text.
C24_FormulaIsPure ==
    pc = "done" =>
        /\ elements = Constructed.elements
        /\ atomic_masses = Constructed.atomic_masses
        /\ counts = Constructed.counts
        /\ charge = Constructed.charge
        /\ chargesign = Constructed.chargesign
        /\ mass = Constructed.mass
        /\ abundance = Constructed.abundance
        /\ result # NoResult =>
              result = formula(Constructed, call.style, call.HtoD, call.show_charge,
                               call.all_isotopes, call.template)

\* a later call m.formula(HtoD=False) on Molecule('D2O') has returned 2H
\* with its mass number, after earlier calls
C24_HeavyWaterCalledAgain ==
    /\ FormulaReturned
    /\ input = T_D2O
    /\ call.nth = 2
    /\ ~call.HtoD
    /\ OtherOptionsDefault
    /\ result.text \in {"2H2 O", "O 2H2"}

-----------------------------------------------------------------------------
(* Calls of interference() *)

MaxSize == 2

AtomLists ==
    { <<>>, <<"H">>, <<"O">>, <<"H", "H">>, <<"H", "C">>, <<"C", "H">>, <<"H", "O">>,
      <<"O", "H", "O">>, <<"X">>, <<"H", "X">> }

ChargeLists == { <<>>, <<0>>, <<1>>, <<2>>, <<1, 2>>, <<2, 1>>, <<1, 1>>, <<0, 1>> }

\* the argument charge: a list or tuple, a single number (charge=2), or a
\* value that is neither (charge=None)
ChargeArgs ==
    [kind : {"list"}, value : ChargeLists]
        \cup {[kind |-> "number", value |-> <<2>>], [kind |-> "other", value |-> <<>>]}

ChargeSigns == {"+", "-", "o", "0", "x"}

\* the target is None, a number (or a text that float() reads) or a formula;
\* 15694914 is the mass of 16O less the targetrange
Targets ==
    { [kind |-> "none", value |-> 0, text |-> <<>>],
      [kind |-> "number", value |-> 0, text |-> <<>>],
      [kind |-> "number", value |-> 18000000, text |-> <<>>],
      [kind |-> "number", value |-> 15694914, text |-> <<>>],
      [kind |-> "text", value |-> 0, text |-> T_H2O],
      [kind |-> "text", value |-> 0, text |-> <<"1", "6", "O", " ", "-">>],
      [kind |-> "text", value |-> 0, text |-> <<"1", "8", "O", " ", "2", "+">>],
      [kind |-> "text", value |-> 0, text |-> <<"X">>] }

InitInterference ==
    /\ input = <<>>
    /\ pc = "idle"
    /\ error = ""
    /\ elements = <<>>
    /\ atomic_masses = <<>>
    /\ counts = <<>>
    /\ isotopes = <<>>
    /\ mass = 0
    /\ abundance = One
    /\ charge = 0
    /\ chargesign = ""
    /\ molecular_formula = ""
    /\ call \in [atoms : AtomLists, target : Targets, targetrange : {300000},
                 maxsize : 0..MaxSize, charge : ChargeArgs,
                 chargesign : ChargeSigns, style : {"plain"}]
    /\ result = NoResult
    /\ loop_size = 0
    /\ widget = NoWidget

Interference ==
    /\ result = NoResult
    /\ result' = interference(call.atoms, call.target, call.targetrange, call.maxsize,
                              call.charge, call.chargesign, call.style)
    /\ UNCHANGED <<mvars, call, uvars>>

NextInterference == Interference

SpecInterference == InitInterference /\ [][NextInterference]_vars

-----------------------------------------------------------------------------
(* Properties of interference(), checked under SpecInterference *)

\* the isotopes of the sample elements
PoolOf(atoms) == {IsotopeOf(r) : r \in {r \in Rows : ElementOf(r) \in Range(atoms)}}

RECURSIVE SumOver(_, _)
SumOver(f, S) ==
    IF S = {} THEN 0
    ELSE f[CHOOSE x \in S : TRUE] + SumOver(f, S \ {CHOOSE x \in S : TRUE})

\* the multisets of size 1 to maxsize over a pool, as the count of each isotope
MultisetsOver(pool, maxsize) ==
    {b \in [pool -> 0..maxsize] : SumOver(b, pool) \in 1..maxsize}

\* a row's Molecule holds exactly the isotopes of the multiset b, as often
RowIsMultiset(row, pool, b) ==
    /\ Range(row.m.isotopes) \subseteq pool
    /\ \A i \in pool :
          SumSeq([k \in DOMAIN row.m.isotopes |->
                     IF row.m.isotopes[k] = i THEN row.m.counts[k] ELSE 0]) = b[i]

\* the charges the rows are made for
RequestedCharges == IF call.chargesign \in {"o", "0"} THEN <<0>> ELSE call.charge.value

\* C10: a call of interference() without target that returns has, for each
\* requested charge and each multiset of size 1 to maxsize over the isotopes
\* of the sample elements, one row for each time the charge is requested, and
\* no other row but the target row.
C10_RowsAreMultisets ==
    (result # NoResult /\ result.error = "" /\ call.target.kind = "none") =>
        /\ \A c \in Range(RequestedCharges) :
              \A b \in MultisetsOver(PoolOf(call.atoms), call.maxsize) :
                  Cardinality({i \in DOMAIN result.rows :
                                  /\ ~result.rows[i].target
                                  /\ result.rows[i].charge = c
                                  /\ RowIsMultiset(result.rows[i], PoolOf(call.atoms), b)})
                    = Cardinality({k \in DOMAIN RequestedCharges : RequestedCharges[k] = c})
        /\ \A i \in DOMAIN result.rows :
              \/ result.rows[i].target /\ i = Len(result.rows)
              \/ /\ ~result.rows[i].target
                 /\ result.rows[i].charge \in Range(RequestedCharges)
                 /\ \E b \in MultisetsOver(PoolOf(call.atoms), call.maxsize) :
                        RowIsMultiset(result.rows[i], PoolOf(call.atoms), b)

\* the call interference(['O', 'H', 'O'], maxsize=2, charge=[1, 2]) has returned
\* the 20 multisets over the five isotopes of H and O for each charge
C10_TwoChargesFiveIsotopes ==
    /\ result.error = ""
    /\ call.target.kind = "none"
    /\ call.atoms = <<"O", "H", "O">>
    /\ call.maxsize = 2
    /\ call.chargesign = "+"
    /\ call.charge.value = <<1, 2>>
    /\ Len(result.rows) = 41

\* the target as Python's "if target:" reads it: None, 0 and '' are no target
TargetGiven ==
    \/ call.target.kind = "number" /\ call.target.value # 0
    \/ call.target.kind = "text" /\ call.target.text # <<>>

Returned == result # NoResult /\ result.error = ""

\* the last row of the table returned
LastRow == result.rows[Len(result.rows)]

\* the sample's isotopes and the sum of the masses of a multiset of them
Pool == PoolOf(call.atoms)
MassOfMultiset(b) ==
    SumSeq([r \in Rows |-> IF IsotopeOf(r) \in Pool THEN b[IsotopeOf(r)] * periodic_table[r].mass
                           ELSE 0])

\* the mass/charge of the ion of multiset b with charge c: the mass less (sign
\* '+') or plus (sign '-') c electron masses, divided by c; the mass when c = 0
IonMz(b, c) ==
    IF c = 0 \/ call.chargesign \in {"o", "0"} THEN MassOfMultiset(b)
    ELSE IF call.chargesign = "+" THEN (MassOfMultiset(b) - c * mass_electron) \div c
    ELSE (MassOfMultiset(b) + c * mass_electron) \div c

\* within targetrange of the target mass/charge of the table, bounds included
InWindow(mz) ==
    /\ LastRow.mz - call.targetrange <= mz
    /\ mz <= LastRow.mz + call.targetrange

\* the candidates in the window: a multiset with an entry of the charge list
CandidatesInWindow ==
    {x \in (DOMAIN RequestedCharges) \X MultisetsOver(Pool, call.maxsize) :
        InWindow(IonMz(x[2], RequestedCharges[x[1]]))}

\* C11: when a target is given, the rows of a returned table other than the
\* target row are exactly the multisets and charges whose mass/charge lies
\* within targetrange of the target, both bounds included: each such row is
\* in the window, and each candidate in the window has its row.
C11_RowsAreTheWindow ==
    (Returned /\ TargetGiven) =>
        /\ \A i \in DOMAIN result.rows :
              ~result.rows[i].target => InWindow(result.rows[i].mz)
        /\ \A x \in CandidatesInWindow :
              \E i \in DOMAIN result.rows :
                  /\ ~result.rows[i].target
                  /\ result.rows[i].charge = RequestedCharges[x[1]]
                  /\ result.rows[i].mz = IonMz(x[2], RequestedCharges[x[1]])
                  /\ RowIsMultiset(result.rows[i], Pool, x[2])
        /\ Cardinality({i \in DOMAIN result.rows : ~result.rows[i].target})
             = Cardinality(CandidatesInWindow)

\* interference(['H', 'O'], 15.694914, targetrange=0.3, maxsize=2, chargesign='o')
\* has returned 16O, which lies on the upper bound, and none of the other 19
\* combinations
C11_RowOnTheUpperBound ==
    /\ Returned
    /\ call.atoms = <<"H", "O">>
    /\ call.maxsize = 2
    /\ call.chargesign = "o"
    /\ call.target = [kind |-> "number", value |-> 15694914, text |-> <<>>]
    /\ Len(result.rows) = 2
    /\ result.rows[1].mz = LastRow.mz + call.targetrange
    /\ result.rows[1].m.isotopes = <<"16O">>

\* the target formula's Molecule, and its mass as the sum of its isotopes'
\* masses corrected by c electron masses for the sign given
TargetFormula == Molecule(call.target.text)
MassOfIsotopes(m) ==
    SumSeq([k \in DOMAIN m.isotopes |->
        periodic_table[CHOOSE r \in Rows : IsotopeOf(r) = m.isotopes[k]].mass * m.counts[k]])
CorrectedMass(m, c, sign) ==
    IF sign = "+" THEN MassOfIsotopes(m) - c * mass_electron
    ELSE IF sign = "-" THEN MassOfIsotopes(m) + c * mass_electron
    ELSE MassOfIsotopes(m)

NeutralFormulaTarget ==
    /\ call.target.kind = "text"
    /\ call.target.text # <<>>
    /\ TargetFormula.charge = 0

\* C13: for a target formula without charge the target row has the first
\* value of charge, and the target mass/charge is the one of the target ion
\* with that charge and the chargesign of the call:
\* (mass -/+ charge[0] * electron mass) / charge[0].
C13_TargetTakesFirstCharge ==
    (Returned /\ NeutralFormulaTarget) =>
        /\ LastRow.charge = call.charge.value[1]
        /\ LastRow.mz = IF call.charge.value[1] = 0 THEN MassOfIsotopes(TargetFormula)
                          ELSE CorrectedMass(TargetFormula, call.charge.value[1],
                                             call.chargesign) \div call.charge.value[1]

\* interference(['H', 'O'], 'H2O', maxsize=2, charge=[2, 1], chargesign='-') has
\* returned a target row of charge 2 whose mass/charge is the mass of neutral H2O
C13_TargetRowOfNeutralMass ==
    /\ Returned
    /\ call.atoms = <<"H", "O">>
    /\ call.maxsize = 2
    /\ call.target.text = T_H2O
    /\ call.charge.value = <<2, 1>>
    /\ call.chargesign = "-"
    /\ LastRow.charge = 2
    /\ LastRow.mz = MassOfIsotopes(TargetFormula)

\* the rows flagged target=True
TargetRows == {i \in DOMAIN result.rows : result.rows[i].target}

\* C14: a returned table has exactly one row flagged target=True, with
\* difference 0 and infinite resolving power, when a formula target was given,
\* and no row flagged target=True when target is None; the rows of the
\* enumeration, which come before it, are flagged target=False.
C14_OneTargetRowForFormula ==
    Returned =>
        /\ (call.target.kind = "text" /\ call.target.text # <<>>) =>
              /\ Cardinality(TargetRows) = 1
              /\ \A i \in TargetRows : result.rows[i].diff = 0 /\ result.rows[i].MRP = Inf
        /\ call.target.kind = "none" => TargetRows = {}
        /\ \A i \in 1..(Len(result.rows) - 1) : ~result.rows[i].target

\* interference(['H'], None, maxsize=1, charge=[1], chargesign='-') has returned
\* the rows of 1H and 2H and a third row flagged target=True, with molecule None
C14_TargetRowWithoutTarget ==
    /\ Returned
    /\ call.target.kind = "none"
    /\ call.atoms = <<"H">>
    /\ call.maxsize = 1
    /\ call.charge.value = <<1>>
    /\ call.chargesign = "-"
    /\ Len(result.rows) = 3
    /\ TargetRows = {3}
    /\ result.rows[3].molecule = None

\* C15: the rows of a returned table are in ascending order of mass/charge.
C15_RowsAscending ==
    Returned =>
        \A i, j \in DOMAIN result.rows :
            i < j => result.rows[i].mz <= result.rows[j].mz

\* interference(['H', 'O'], None, maxsize=2, charge=[1], chargesign='-') has
\* returned its rows in the order of the enumeration, a single charge: the
\* fifth row is 18O and the sixth is 1H 1H
C15_EnumerationOrder ==
    /\ Returned
    /\ call.atoms = <<"H", "O">>
    /\ call.maxsize = 2
    /\ call.charge.value = <<1>>
    /\ call.chargesign = "-"
    /\ call.target.kind = "none"
    /\ result.rows[5].m.isotopes = <<"18O">>
    /\ result.rows[6].m.isotopes = <<"1H">>
    /\ result.rows[5].mz > result.rows[6].mz

\* the call is over: it has returned a table or raised
Over == result # NoResult

\* maxsize is not positive, or there is no element, or no charge magnitude
InvalidRange ==
    \/ call.maxsize <= 0
    \/ call.atoms = <<>>
    \/ call.charge.kind = "list" /\ call.charge.value = <<>>

\* a configuration with nothing to reject: a range as wanted, a list of
\* charges, a chargesign of the four, and no target, a number or a formula
\* that Molecule() accepts
ValidConfiguration ==
    /\ ~InvalidRange
    /\ call.charge.kind = "list"
    /\ call.chargesign \in {"+", "-", "o", "0"}
    /\ call.target.kind = "text" => TargetFormula.error = ""

\* C16: a call with maxsize not positive, with an empty list of elements or
\* with an empty list of charges fails and returns no table; a call with a
\* valid configuration returns a table.
C16_InvalidRangeRejected ==
    Over =>
        /\ InvalidRange => result.error # "" /\ result.rows = <<>>
        /\ ValidConfiguration => result.error = ""

\* interference(['H', 'O'], None, maxsize=0, charge=[1], chargesign='o') has
\* returned a table: it holds the target row and nothing else
C16_MaxsizeZeroReturned ==
    /\ Returned
    /\ call.atoms = <<"H", "O">>
    /\ call.maxsize = 0
    /\ call.charge.value = <<1>>
    /\ call.chargesign = "o"
    /\ call.target.kind = "none"
    /\ Len(result.rows) = 1
    /\ LastRow.target

\* the call with charge given as the list of the same numbers
SameCallWithList ==
    interference(call.atoms, call.target, call.targetrange, call.maxsize,
                 [kind |-> "list", value |-> call.charge.value], call.chargesign,
                 call.style)

\* C17: a call with charge given as a single number ends as the call with the
\* one-element list of that number does, and a charge that is neither a
\* number nor a list or tuple raises the ValueError of line 54.
C17_NumberReadAsList ==
    Over =>
        /\ call.charge.kind = "number" => result = SameCallWithList
        /\ call.charge.kind = "other" => result.error = "ValueError"

\* interference(['H', 'O'], 18.0, maxsize=2, charge=2, chargesign='-') has raised
\* TypeError, while the same call with charge=[2] returns a table
C17_SingleNumberRaised ==
    /\ Over
    /\ call.charge = [kind |-> "number", value |-> <<2>>]
    /\ call.atoms = <<"H", "O">>
    /\ call.maxsize = 2
    /\ call.chargesign = "-"
    /\ call.target = [kind |-> "number", value |-> 18000000, text |-> <<>>]
    /\ result.error = "TypeError"
    /\ SameCallWithList.error = ""

\* the Molecule and the sign behind row i of a returned table: for the target
\* row the target formula with its own sign, or the sign of the call when it
\* has none
IonOfRow(i) == IF result.rows[i].target THEN TargetFormula ELSE result.rows[i].m
SignOfRow(i) ==
    IF result.rows[i].target /\ TargetFormula.chargesign # ""
    THEN TargetFormula.chargesign ELSE call.chargesign

\* row i is a candidate, or the row of a target given as a formula
IonRow(i) == ~result.rows[i].target \/ call.target.kind = "text"

\* C26: every row of a returned table with a charge c > 0, candidate or formula
\* target, has the mass/charge (sum of the isotope masses - c * electron mass) / c
\* for sign '+' and (sum + c * electron mass) / c for sign '-': the electron
\* mass enters once for each charge.
C26_ElectronMassOnce ==
    Returned =>
        \A i \in DOMAIN result.rows :
            (IonRow(i) /\ result.rows[i].charge > 0 /\ SignOfRow(i) \in {"+", "-"}) =>
                result.rows[i].mz * result.rows[i].charge
                    = CorrectedMass(IonOfRow(i), result.rows[i].charge, SignOfRow(i))

\* interference(['H', 'O'], 'H2O', maxsize=2, charge=[1], chargesign='-') has
\* returned: the row of 18O is at its mass plus one electron mass, the target
\* row has charge 1 and the mass of H2O without an electron mass
C26_TargetWithoutElectronMass ==
    /\ Returned
    /\ call.atoms = <<"H", "O">>
    /\ call.maxsize = 2
    /\ call.target.text = T_H2O
    /\ call.charge.value = <<1>>
    /\ call.chargesign = "-"
    /\ \E i \in DOMAIN result.rows :
           /\ ~result.rows[i].target
           /\ result.rows[i].m.isotopes = <<"18O">>
           /\ result.rows[i].charge = 1
           /\ result.rows[i].mz = MassOfIsotopes(result.rows[i].m) + mass_electron
    /\ LastRow.charge = 1
    /\ LastRow.mz = MassOfIsotopes(TargetFormula)
    /\ LastRow.mz # CorrectedMass(TargetFormula, 1, "-")

\* the neutral Molecule of the isotopes and counts of a row, from the table
NeutralOf(m) ==
    [elements |-> [k \in DOMAIN m.isotopes |->
                      ElementOf(CHOOSE r \in Rows : IsotopeOf(r) = m.isotopes[k])],
     atomic_masses |-> [k \in DOMAIN m.isotopes |->
                      periodic_table[CHOOSE r \in Rows : IsotopeOf(r) = m.isotopes[k]].am],
     counts |-> m.counts, charge |-> 0, chargesign |-> ""]

\* row i is a candidate row with charge 0, the plain sum of its isotopes'
\* masses as mass/charge and a formula that ends with its last unit
UnchargedRow(i) ==
    /\ result.rows[i].charge = 0
    /\ result.rows[i].mz = MassOfIsotopes(result.rows[i].m)
    /\ result.rows[i].molecule
         = formula(NeutralOf(result.rows[i].m), call.style, TRUE, FALSE, FALSE,
                   NoTemplate).text

\* the multisets a returned table has to show: all of them without a target,
\* those whose mass lies in the window with one
UnchargedCandidates ==
    {b \in MultisetsOver(Pool, call.maxsize) : TargetGiven => InWindow(MassOfMultiset(b))}

\* the candidate rows of multiset b with charge 0
UnchargedRowsOf(b) ==
    {i \in DOMAIN result.rows :
        /\ ~result.rows[i].target
        /\ result.rows[i].charge = 0
        /\ RowIsMultiset(result.rows[i], Pool, b)}

\* C27: with chargesign 'o' or '0' a returned table has, whatever the charge
\* list, one row for each candidate multiset and no other but the target row,
\* each with charge 0, the plain sum of the isotope masses as mass/charge and
\* no charge in its formula. With sign '+' or '-' each 0 in the charge list
\* gives the same rows.
C27_UnchargedRows ==
    Returned =>
        /\ call.chargesign \in {"o", "0"} =>
              /\ \A i \in DOMAIN result.rows : ~result.rows[i].target => UnchargedRow(i)
              /\ \A b \in UnchargedCandidates : Cardinality(UnchargedRowsOf(b)) = 1
              /\ Len(result.rows) = Cardinality(UnchargedCandidates) + 1
        /\ call.chargesign \in {"+", "-"} =>
              /\ \A i \in DOMAIN result.rows :
                    (~result.rows[i].target /\ result.rows[i].charge = 0) => UnchargedRow(i)
              /\ \A b \in UnchargedCandidates :
                    Cardinality(UnchargedRowsOf(b))
                      = Cardinality({k \in DOMAIN call.charge.value : call.charge.value[k] = 0})

\* interference(['H', 'O'], None, maxsize=2, charge=[1, 2], chargesign='o') has
\* returned the 20 multisets once each and the target row, all with charge 0
C27_TwoChargesIgnored ==
    /\ Returned
    /\ call.atoms = <<"H", "O">>
    /\ call.maxsize = 2
    /\ call.target.kind = "none"
    /\ call.charge.value = <<1, 2>>
    /\ call.chargesign = "o"
    /\ Len(result.rows) = 21
    /\ \A i \in DOMAIN result.rows : result.rows[i].charge = 0
    /\ \E i \in DOMAIN result.rows :
           /\ result.rows[i].m.isotopes = <<"18O", "1H">>
           /\ result.rows[i].molecule = "18O H"

\* C28: in a table returned for a target, every row but the target row has
\* the signed difference mass/charge - target as 'mass/charge diff' and
\* target / |difference| as MRP, which is infinity when the difference is 0.
C28_DifferenceAndMRP ==
    (Returned /\ TargetGiven) =>
        \A i \in DOMAIN result.rows :
            ~result.rows[i].target =>
                /\ result.rows[i].diff = result.rows[i].mz - LastRow.mz
                /\ result.rows[i].MRP
                     = IF result.rows[i].mz = LastRow.mz
                       THEN [inf |-> TRUE, nan |-> FALSE, num |-> 0, den |-> 0]
                       ELSE [inf |-> FALSE, nan |-> FALSE, num |-> LastRow.mz,
                             den |-> IF result.rows[i].mz > LastRow.mz
                                     THEN result.rows[i].mz - LastRow.mz
                                     ELSE LastRow.mz - result.rows[i].mz]

\* interference(['H', 'O'], '16O -', maxsize=2, charge=[1], chargesign='-') has
\* returned the row of 16O with charge 1 at the target mass/charge: difference
\* 0 and MRP infinity
C28_RowAtTheTarget ==
    /\ Returned
    /\ call.atoms = <<"H", "O">>
    /\ call.maxsize = 2
    /\ call.target.text = <<"1", "6", "O", " ", "-">>
    /\ call.charge.value = <<1>>
    /\ call.chargesign = "-"
    /\ \E i \in DOMAIN result.rows :
           /\ ~result.rows[i].target
           /\ result.rows[i].m.isotopes = <<"16O">>
           /\ result.rows[i].mz = LastRow.mz
           /\ result.rows[i].diff = 0
           /\ result.rows[i].MRP.inf

\* the exception of lines 49-54 for the charge of the call, "" if there is none
ChargeError ==
    IF call.charge.kind = "number" THEN "TypeError"
    ELSE IF call.charge.kind # "list" THEN "ValueError"
    ELSE ""

\* C29: a call of interference with a chargesign that is none of '+', '-', 'o'
\* and '0' raises and returns no table; the exception is the one of the
\* arguments (ValueError for the sign, when the charge has not raised before
\* it), also when the target is a formula that Molecule() cannot construct, so
\* it is raised before the target is parsed and no row is made for the sign.
C29_UnknownSignRejected ==
    (result # NoResult /\ call.chargesign \notin {"+", "-", "o", "0"}) =>
        /\ result.rows = <<>>
        /\ result.error = IF ChargeError # "" THEN ChargeError ELSE "ValueError"

\* interference(['H', 'O'], 'X', maxsize=2, charge=[1], chargesign='x') has
\* raised ValueError, while Molecule('X') raises another exception
C29_SignBeforeTarget ==
    /\ result # NoResult
    /\ call.atoms = <<"H", "O">>
    /\ call.maxsize = 2
    /\ call.target.text = <<"X">>
    /\ call.charge = [kind |-> "list", value |-> <<1>>]
    /\ call.chargesign = "x"
    /\ result = [error |-> "ValueError", rows |-> <<>>]
    /\ Molecule(call.target.text).error \notin {"", "ValueError"}

-----------------------------------------------------------------------------
(* mass_interference() of masstable.py.  The table has, next to the        *)
(* isotopes of known abundance, isotopes whose abundance NIST does not     *)
(* give (NaN).  An abundance is [nan, v], v in 10^-6.                      *)

Known(v) == [nan |-> FALSE, v |-> v]
NaN == [nan |-> TRUE, v |-> 0]

\* 1.0 as an abundance
Whole == 1000000

\* masstable = get_masstable(): the rows of H and C
masstable == <<
    [isotope |-> "1H",  element |-> "H", isotope_mass |-> 1007826,  abundance |-> Known(999885)],
    [isotope |-> "2H",  element |-> "H", isotope_mass |-> 2014104,  abundance |-> Known(115)],
    [isotope |-> "3H",  element |-> "H", isotope_mass |-> 3016050,  abundance |-> NaN],
    [isotope |-> "12C", element |-> "C", isotope_mass |-> 12000000, abundance |-> Known(989300)],
    [isotope |-> "13C", element |-> "C", isotope_mass |-> 13003356, abundance |-> Known(10700)],
    [isotope |-> "14C", element |-> "C", isotope_mass |-> 14003244, abundance |-> NaN] >>

\* lines 557-561: the rows of each atom of the list, in the order of the list
masstable_picked(atoms) ==
    Flatten([k \in DOMAIN atoms |->
        InOrder({r \in DOMAIN masstable : masstable[r].element = atoms[k]})])

\* lines 563-565: "if not minabundance" is true for None and for 0; -1 is the
\* signalling value
replacement(minabundance) ==
    IF minabundance.kind = "none" \/ minabundance.value = 0 THEN -Whole
    ELSE minabundance.value

\* Series.fillna(value)
fillna(a, value) == IF a.nan THEN Known(value) ELSE a

\* line 566: the column 'abundance' of the picked rows
picked_abundance(pool, minabundance) ==
    [i \in DOMAIN pool |-> fillna(masstable[pool[i]].abundance, replacement(minabundance))]

\* lines 585-591: the combinations, as positions in the picked rows
isotope_combos(pool, maxsize) ==
    Flatten([size \in 1..maxsize |-> CombinationsWR(1, Len(pool), size)])

\* the longest combination: the width of DataFrame(abundance_combos)
Width(combos) ==
    IF combos = <<>> THEN 0
    ELSE CHOOSE w \in {Len(combos[c]) : c \in DOMAIN combos} :
             \A c \in DOMAIN combos : Len(combos[c]) <= w

\* line 595: one row of DataFrame(abundance_combos), a short combination
\* filled up with NaN
abundance_row(combo, abund, width) ==
    [j \in 1..width |-> IF j <= Len(combo) THEN abund[combo[j]] ELSE NaN]

\* line 605: DataFrame.where(abundances >= 0)
where_not_negative(a) == IF ~a.nan /\ a.v >= 0 THEN a ELSE NaN

\* line 606: prod(axis=1, skipna=False) of one row; the product is kept as
\* its factors other than 1.0 in ascending order, or as 0
ProductOf(row) ==
    IF \E j \in DOMAIN row : row[j].nan THEN [nan |-> TRUE, factors |-> <<>>]
    ELSE IF \E j \in DOMAIN row : row[j].v = 0 THEN [nan |-> FALSE, factors |-> <<0>>]
    ELSE [nan |-> FALSE,
          factors |-> SortSeq(SelectSeq([j \in DOMAIN row |-> row[j].v],
                                        LAMBDA v : v # Whole),
                              LAMBDA a, b : a < b)]

\* lines 604-606: the column 'probability' of one row
probability_of(row) ==
    ProductOf([j \in DOMAIN row |-> where_not_negative(fillna(row[j], Whole))])

\* lines 594-614: the rows before the charge
mass_data(pool, combos, abund) ==
    [c \in DOMAIN combos |->
        [isotopes |-> [j \in DOMAIN combos[c] |-> masstable[pool[combos[c][j]]].isotope],
         mass |-> SumSeq([j \in DOMAIN combos[c] |->
                             masstable[pool[combos[c][j]]].isotope_mass]),
         probability |-> probability_of(abundance_row(combos[c], abund, Width(combos)))]]

\* lines 616-638: the data once for each charge, the mass divided by it
mass_with_charge(data, charges) ==
    Flatten([k \in DOMAIN charges |->
        [c \in DOMAIN data |->
            [isotopes |-> data[c].isotopes, charge |-> charges[k],
             mz |-> data[c].mass \div charges[k],
             probability |-> data[c].probability]]])

\* lines 639-650: difference and MRP, and the rows in the window
mass_results(data, mz, mzrange) ==
    IF mz # 0
    THEN SelectSeq([c \in DOMAIN data |->
                       data[c] @@ [diff |-> data[c].mz - mz,
                                   MRP |-> Quotient(mz, Abs(data[c].mz - mz))]],
                   LAMBDA d : d.mz >= mz - mzrange /\ d.mz <= mz + mzrange)
    ELSE [c \in DOMAIN data |-> data[c] @@ [diff |-> 0, MRP |-> Quotient(0, 1)]]

\* line 666: sorted by mass/charge; rows of equal mass/charge stay in the
\* order of the enumeration
RECURSIVE InsertByMz(_, _)
InsertByMz(sorted, d) ==
    IF sorted = <<>> THEN <<d>>
    ELSE IF sorted[Len(sorted)].mz <= d.mz THEN Append(sorted, d)
    ELSE Append(InsertByMz(SubSeq(sorted, 1, Len(sorted) - 1), d), sorted[Len(sorted)])
RECURSIVE SortByMz(_)
SortByMz(data) ==
    IF data = <<>> THEN <<>>
    ELSE InsertByMz(SortByMz(SubSeq(data, 1, Len(data) - 1)), data[Len(data)])

\* mass_interference(atoms, mz, mzrange, maxsize, charge, chargesign,
\* minabundance) with mz None (0 here) or a number: the table returned.  The
\* column 'molecule' is kept as the isotopes of the combination; its text
\* comes from Molecule.formula of masstable.py, which reads no abundance.
mass_interference(atoms, mz, mzrange, maxsize, charges, minabundance) ==
    [error |-> "",
     rows |-> SortByMz(mass_results(
                  mass_with_charge(
                      mass_data(masstable_picked(atoms),
                                isotope_combos(masstable_picked(atoms), maxsize),
                                picked_abundance(masstable_picked(atoms), minabundance)),
                      charges),
                  mz, mzrange))]

\* the calls: minabundance None, 0 or 10^-6
MaxCombo == 2
MassAtomLists == { <<"H">>, <<"C">>, <<"H", "C">>, <<"C", "H">>, <<"C", "C">> }
MassChargeLists == { <<1>>, <<2>>, <<1, 2>> }
MassTargets == {0, 14003244, 2015652}
MinAbundances ==
    { [kind |-> "none", value |-> 0], [kind |-> "number", value |-> 0],
      [kind |-> "number", value |-> 1] }

InitMass ==
    /\ input = <<>>
    /\ pc = "idle"
    /\ error = ""
    /\ elements = <<>>
    /\ atomic_masses = <<>>
    /\ counts = <<>>
    /\ isotopes = <<>>
    /\ mass = 0
    /\ abundance = One
    /\ charge = 0
    /\ chargesign = ""
    /\ molecular_formula = ""
    /\ call \in [atoms : MassAtomLists, mz : MassTargets, mzrange : {300000},
                 maxsize : 0..MaxCombo, charge : MassChargeLists,
                 minabundance : MinAbundances]
    /\ result = NoResult
    /\ loop_size = 0
    /\ widget = NoWidget

MassInterference ==
    /\ result = NoResult
    /\ result' = mass_interference(call.atoms, call.mz, call.mzrange, call.maxsize,
                                   call.charge, call.minabundance)
    /\ UNCHANGED <<mvars, call, uvars>>

NextMass == MassInterference

SpecMass == InitMass /\ [][NextMass]_vars

-----------------------------------------------------------------------------
(* Properties of mass_interference(), checked under SpecMass *)

\* the abundance of isotope i in the table
TableAbundance(i) == masstable[CHOOSE r \in DOMAIN masstable : masstable[r].isotope = i].abundance

\* the molecule of row i has an isotope of unknown abundance
HasUnknown(i) ==
    \E j \in DOMAIN result.rows[i].isotopes : TableAbundance(result.rows[i].isotopes[j]).nan

\* the abundances of the isotopes of row i, minabundance for the unknown ones,
\* as the factors of their product
FactorsOf(i) ==
    [j \in DOMAIN result.rows[i].isotopes |->
        IF TableAbundance(result.rows[i].isotopes[j]).nan THEN call.minabundance.value
        ELSE TableAbundance(result.rows[i].isotopes[j]).v]

\* the probability of row i is the product of the factors f
IsProductOf(i, f) ==
    /\ ~result.rows[i].probability.nan
    /\ IF \E j \in DOMAIN f : f[j] = 0 THEN result.rows[i].probability.factors = <<0>>
       ELSE result.rows[i].probability.factors
              = SortSeq(SelectSeq(f, LAMBDA v : v # Whole), LAMBDA a, b : a < b)

\* C30: in a table of mass_interference with minabundance=None the
\* probability of a row is NaN exactly when its molecule has an isotope of
\* unknown abundance; with a value for minabundance no probability is NaN and
\* the value stands for each unknown abundance; in both cases the probability
\* of a combination shorter than maxsize is the product of its own abundances.
C30_UnknownAbundance ==
    (result # NoResult /\ result.error = "") =>
        \A i \in DOMAIN result.rows :
            /\ call.minabundance.kind = "none" =>
                  /\ result.rows[i].probability.nan <=> HasUnknown(i)
                  /\ ~HasUnknown(i) => IsProductOf(i, FactorsOf(i))
            /\ call.minabundance.kind = "number" => IsProductOf(i, FactorsOf(i))

\* mass_interference(['C'], None, maxsize=2, charge=[1], minabundance=0) has
\* returned the row of 14C, shorter than maxsize, with a NaN probability
C30_ZeroReadAsNone ==
    /\ result # NoResult
    /\ call.atoms = <<"C">>
    /\ call.mz = 0
    /\ call.maxsize = 2
    /\ call.charge = <<1>>
    /\ call.minabundance = [kind |-> "number", value |-> 0]
    /\ \E i \in DOMAIN result.rows :
           /\ result.rows[i].isotopes = <<"14C">>
           /\ result.rows[i].probability.nan
    /\ \E i \in DOMAIN result.rows :
           /\ result.rows[i].isotopes = <<"12C">>
           /\ result.rows[i].probability = [nan |-> FALSE, factors |-> <<989300>>]

-----------------------------------------------------------------------------
(* MainWidget of ui.py: the button "calculate" and its slot                *)
(* calculate_interference.  The slot runs in the thread of the window: no  *)
(* other slot runs before it has returned.                                 *)

\* self.mz as Python's "if not self.mz:" reads it: None, 0.0 and '' are no target
HasTarget(mz) ==
    \/ mz.kind = "number" /\ mz.value # 0
    \/ mz.kind = "text" /\ mz.text # <<>>

\* MainWidget.__init__, lines 334-338, and an empty table_output
NewWidget ==
    [pc |-> "ready", atoms |-> <<>>, charges |-> <<1>>,
     mz |-> [kind |-> "text", value |-> 0, text |-> <<>>],
     mzrange |-> 300000, maxsize |-> 5, chargesign |-> "", message |-> "",
     table |-> <<>>]

\* self.warn(text) and return False
Warned(w, text) == [ok |-> FALSE, w |-> [w EXCEPT !.message = text]]

\* check_atoms_input, atoms the matches of _isotope_rx in the text of atoms_input
check_atoms_input(w, atoms) ==
    IF atoms = <<>> THEN Warned(w, "Enter at least one element or isotope.")
    ELSE IF \E i \in DOMAIN atoms : ElementRows(atoms[i]) = {}
    THEN Warned(w, "is not an element or missing from the periodic table.")
    ELSE [ok |-> TRUE, w |-> [w EXCEPT !.atoms = atoms]]

\* check_charges_input, charges the matches of _charges_rx in the text of
\* charges_input, each a run of digits that int() reads
check_charges_input(w, charges) ==
    IF charges = <<>> THEN Warned(w, "Enter at least one charge value.")
    ELSE [ok |-> TRUE, w |-> [w EXCEPT !.charges = charges]]

\* check_mz_input: the text of mz_input is empty, a number, or is given to
\* Molecule()
check_mz_input(w, mz) ==
    IF mz.kind = "text" /\ mz.text = <<>>
    THEN [ok |-> TRUE, w |-> [w EXCEPT !.mz = [kind |-> "none", value |-> 0, text |-> <<>>]]]
    ELSE IF mz.kind = "number" THEN [ok |-> TRUE, w |-> [w EXCEPT !.mz = mz]]
    ELSE IF Molecule(mz.text).error # ""
    THEN Warned(w, "Enter target as a number or as a molecular formula.")
    ELSE [ok |-> TRUE, w |-> [w EXCEPT !.mz = mz]]

\* lines 566-568: the three checks, each only if the one before returned True
and_charges(c, charges) == IF c.ok THEN check_charges_input(c.w, charges) ELSE c
and_mz(c, mz) == IF c.ok THEN check_mz_input(c.w, mz) ELSE c
checks(w, atoms, charges, mz) ==
    and_mz(and_charges(check_atoms_input(w, atoms), charges), mz)

\* lines 580-582: maxsize_input.value() and chargesign_input.currentText()
read_inputs(w, maxsize, sign) == [w EXCEPT !.maxsize = maxsize, !.chargesign = sign]

\* lines 584-585: the arguments of the call of interference()
interference_call(w) ==
    [atoms |-> w.atoms, target |-> w.mz, targetrange |-> w.mzrange,
     maxsize |-> w.maxsize, charge |-> [kind |-> "list", value |-> w.charges],
     chargesign |-> w.chargesign, style |-> "plain"]

\* lines 586-591: the table given to table_output, the column 'charge' removed
TableModel(rows) ==
    [i \in DOMAIN rows |->
        [molecule |-> rows[i].molecule, mz |-> rows[i].mz, diff |-> rows[i].diff,
         MRP |-> rows[i].MRP, probability |-> rows[i].probability,
         target |-> rows[i].target]]

\* what the user has typed and set when the button is pressed
AtomsInputs == { <<>>, <<"H">>, <<"H", "O">> }
ChargesInputs == { <<>>, <<1, 2>> }
MzInputs ==
    { [kind |-> "text", value |-> 0, text |-> <<>>],
      [kind |-> "number", value |-> 18000000, text |-> <<>>],
      [kind |-> "text", value |-> 0, text |-> T_H2O],
      [kind |-> "text", value |-> 0, text |-> <<"X">>] }
ChargesignInputs == {"-", "o"}

InitUI ==
    /\ input = <<>>
    /\ pc = "idle"
    /\ error = ""
    /\ elements = <<>>
    /\ atomic_masses = <<>>
    /\ counts = <<>>
    /\ isotopes = <<>>
    /\ mass = 0
    /\ abundance = One
    /\ charge = 0
    /\ chargesign = ""
    /\ molecular_formula = ""
    /\ call = NoCall
    /\ result = NoResult
    /\ loop_size = 0
    /\ widget = NewWidget

\* lines 580-585 and lines 49-101 of interference(): the call has begun
Begin(w) ==
    /\ widget' = [w EXCEPT !.pc = "enumerating"]
    /\ call' = interference_call(w)
    /\ result' = NoResult
    /\ loop_size' = 0

\* lines 564-578: the button is pressed; the checks, then the warning or the call
Calculate ==
    /\ widget.pc = "ready"
    /\ \E atoms \in AtomsInputs, charges \in ChargesInputs, mz \in MzInputs :
           \E c \in {checks(widget, atoms, charges, mz)} :
               IF ~c.ok THEN widget' = c.w /\ UNCHANGED <<call, result, loop_size>>
               ELSE IF ~HasTarget(c.w.mz)
               THEN /\ widget' = [c.w EXCEPT !.pc = "warning"]
                    /\ UNCHANGED <<call, result, loop_size>>
               ELSE \E maxsize \in 1..MaxSize, sign \in ChargesignInputs :
                        Begin(read_inputs(c.w, maxsize, sign))
    /\ UNCHANGED mvars

\* lines 577-578: Cancel in the warning
WarningCancel ==
    /\ widget.pc = "warning"
    /\ widget' = [widget EXCEPT !.pc = "ready"]
    /\ UNCHANGED <<mvars, call, result, loop_size>>

\* line 577: Ok in the warning
WarningOk ==
    /\ widget.pc = "warning"
    /\ \E maxsize \in 1..MaxSize, sign \in ChargesignInputs :
           Begin(read_inputs(widget, maxsize, sign))
    /\ UNCHANGED mvars

\* main.py lines 102-106: one turn of the loop over the sizes
Enumerate ==
    /\ widget.pc = "enumerating"
    /\ loop_size < call.maxsize
    /\ loop_size' = loop_size + 1
    /\ UNCHANGED <<mvars, call, result, widget>>

\* main.py lines 108-167 and ui.py lines 586-600: the loop is over, the table
\* is returned and shown; an exception leaves the slot and the table as it was
Display ==
    /\ widget.pc = "enumerating"
    /\ loop_size >= call.maxsize
    /\ \E r \in {interference(call.atoms, call.target, call.targetrange, call.maxsize,
                               call.charge, call.chargesign, call.style)} :
           /\ result' = r
           /\ widget' = [widget EXCEPT !.pc = "ready",
                                        !.table = IF r.error = "" THEN TableModel(r.rows)
                                                  ELSE @]
    /\ UNCHANGED <<mvars, call, loop_size>>

NextUI == Calculate \/ WarningCancel \/ WarningOk \/ Enumerate \/ Display

SpecUI == InitUI /\ [][NextUI]_vars

-----------------------------------------------------------------------------
(* Properties of the window, checked under SpecUI *)

\* the search has started and has not yet generated the combinations of
\* every size
Searching == widget.pc = "enumerating" /\ loop_size < call.maxsize

\* a step of the window that ends the search with sizes left to generate
Abort == NextUI /\ widget'.pc # "enumerating" /\ loop_size' < call'.maxsize

\* a step that starts a search without target
StartWithoutTarget ==
    widget.pc # "enumerating" /\ widget'.pc = "enumerating" /\ ~HasTarget(call'.target)

\* the step Cancel of the warning
CancelAtWarning == widget.pc = "warning" /\ widget'.pc = "ready"

\* C18: a search that has started can be aborted before the combinations of
\* every size are generated; a search without target starts only from the
\* warning, by its Ok; and Cancel at the warning starts no search and leaves
\* the table shown as it was.
C18_SearchCanBeCancelled ==
    /\ [](Searching => ENABLED Abort)
    /\ [][StartWithoutTarget => widget.pc = "warning"]_vars
    /\ [][CancelAtWarning =>
             /\ widget'.table = widget.table
             /\ UNCHANGED <<call, result, loop_size>>]_vars

\* a search without target, confirmed at the warning, has done the size 1 of
\* 2: the only step the window can take is the next turn of the loop
C18_SearchWithoutAbort ==
    /\ Searching
    /\ ~HasTarget(call.target)
    /\ loop_size = 1
    /\ call.maxsize = 2
    /\ ~ENABLED Abort

-----------------------------------------------------------------------------
(* standard_ratio() of main.py *)

\* line 176 with the maximum taken over all the rows of the table
MaxAbundance_OfAllRows(a) ==
    CHOOSE x \in {periodic_table[r].abundance : r \in Rows} :
        \A r \in Rows : periodic_table[r].abundance <= x

\* abun.max() of line 176, abun the abundances of the rows of element a
MaxAbundance(a) ==
    CHOOSE x \in {periodic_table[r].abundance : r \in ElementRows(a)} :
        \A r \in ElementRows(a) : periodic_table[r].abundance <= x

\* line 176: abun / abun.max() for the row r, a quotient of two integers
ratio(r) == Quotient(periodic_table[r].abundance, MaxAbundance(ElementOf(r)))

\* line 177: 1 / ratio
inv_ratio(q) == Quotient(q.den, q.num)

\* lines 183-184: Molecule(i) and its formula, or the exception raised
pretty_isotope(m, style) ==
    IF m.error # "" THEN [error |-> m.error, text |-> ""]
    ELSE formula(m, style, TRUE, FALSE, TRUE, NoTemplate)

\* lines 171-187, data the selected rows and pretty their formulas
standard_ratio_rows(data, pretty) ==
    IF \E i \in DOMAIN data : pretty[i].error # ""
    THEN Raise(pretty[Min({i \in DOMAIN data : pretty[i].error # ""})].error)
    ELSE [error |-> "",
          rows |-> [i \in DOMAIN data |->
                      [isotope |-> pretty[i].text, row |-> data[i],
                       mass |-> periodic_table[data[i]].mass,
                       abundance |-> periodic_table[data[i]].abundance,
                       ratio |-> ratio(data[i]),
                       inverse_ratio |-> inv_ratio(ratio(data[i]))]]]

standard_ratio_data(data, style) ==
    standard_ratio_rows(data,
        [i \in DOMAIN data |-> pretty_isotope(Molecule(IsotopeChars(data[i])), style)])

\* standard_ratio(atoms, style): the rows of the table returned, each with the
\* row of periodic_table it comes from, or the exception raised
standard_ratio(atoms, style) == standard_ratio_data(picked_atoms(atoms), style)

\* the lists of at most MaxAtoms elements, X not in the table
MaxAtoms == 2
Elements == {"H", "C", "O", "X"}
RatioAtoms == UNION {[1..n -> Elements] : n \in 0..MaxAtoms}
Styles == {"html", "latex", "mhchem", "molecular", "plain", "isotope", "custom", "text"}

InitRatio ==
    /\ input = <<>>
    /\ pc = "idle"
    /\ error = ""
    /\ elements = <<>>
    /\ atomic_masses = <<>>
    /\ counts = <<>>
    /\ isotopes = <<>>
    /\ mass = 0
    /\ abundance = One
    /\ charge = 0
    /\ chargesign = ""
    /\ molecular_formula = ""
    /\ call \in {[NoCall EXCEPT !.atoms = a, !.style = st] : a \in RatioAtoms, st \in Styles}
    /\ result = NoResult
    /\ loop_size = 0
    /\ widget = NoWidget

StandardRatio ==
    /\ result = NoResult
    /\ result' = standard_ratio(call.atoms, call.style)
    /\ UNCHANGED <<mvars, call, uvars>>

NextRatio == StandardRatio

SpecRatio == InitRatio /\ [][NextRatio]_vars

-----------------------------------------------------------------------------
(* Properties of standard_ratio(), checked under SpecRatio *)

\* the rows of the table for the row r of periodic_table
RatioRowsOf(r) == {i \in DOMAIN result.rows : result.rows[i].row = r}

\* the greatest abundance among the isotopes of the element of row r
GreatestOfElement(r) ==
    CHOOSE x \in {periodic_table[q].abundance : q \in Rows} :
        /\ \E q \in Rows : /\ periodic_table[q].elem = periodic_table[r].elem
                            /\ periodic_table[q].abundance = x
        /\ \A q \in Rows : periodic_table[q].elem = periodic_table[r].elem =>
                               periodic_table[q].abundance <= x

\* the quotient q is the number a / b
IsQuotient(q, a, b) ==
    /\ ~q.inf /\ ~q.nan /\ q.den # 0
    /\ q.num \div GCD(q.num, q.den) = a \div GCD(a, b)
    /\ q.den \div GCD(q.num, q.den) = b \div GCD(a, b)

====
